---------------------------- MODULE Spec2Model ----------------------------
(***************************************************************************)
(* The dictation pipeline of Sagascript: the AppController state machine,  *)
(* the global-shortcut handler and its release path, the UI commands       *)
(* start_recording / stop_and_transcribe / cancel_recording, the capture   *)
(* service and the whisper backend; the model store's download_model and   *)
(* the set_hotkey command.                                                 *)
(*                                                                         *)
(* Every action is one critical section of the controller mutex (or one    *)
(* step of a thread between two suspension points).  An Option<T> is the   *)
(* sequence << >> (None) or << x >> (Some(x)).  A Vec<f32> of samples is   *)
(* its length in callback blocks.  A file is << >> (absent) or << bytes >>. *)
(***************************************************************************)
EXTENDS Integers, Sequences, FiniteSets, TLC

VARIABLES
    state,              \* AppController.state
    recording_start,    \* AppController.recording_start, as the time elapsed since that Instant (ms)
    last_transcription, \* AppController.last_transcription
    last_error,         \* AppController.last_error
    hotkey_mode,        \* Settings.hotkey_mode
    auto_paste,         \* Settings.auto_paste
    buffer,             \* AudioCaptureService.buffer (its length in samples)
    stop_signal,        \* AudioCaptureService.stop_signal
    capture_thread,     \* AudioCaptureService.capture_thread: the handle, with what its thread is doing
    last_captured,      \* AudioCaptureService.last_captured
    loaded_model,       \* WhisperBackend.loaded_model (of the effective model)
    abort_flag,         \* WhisperBackend.abort_flag
    ctx_holder,         \* who holds WhisperBackend.context's mutex
    final_file,         \* the file at model_path(model): absent, or its bytes
    tmp_file,           \* the file at model_path(model).with_extension("bin.tmp")
    dl,                 \* the download_model call in progress, and the progress callbacks of the last one
    hotkey,             \* Settings.hotkey
    current_shortcut,   \* HotkeyService.current_shortcut
    os_registered,      \* the shortcuts registered with the global-shortcut plugin
    suspended,          \* HotkeyService.suspended
    hk,                 \* the shortcut handler's thread: where handle_hotkey_release stands
    tasks,              \* the async tasks spawned by handle_hotkey_release
    cmd,                \* the stop_and_transcribe command in progress
    orphans,            \* timed-out inference workers not yet started (still waiting for the context)
    tf,                 \* the transcribe_file command in progress
    language,           \* Settings.language
    whisper_model,      \* Settings.whisper_model
    auto_select_model,  \* Settings.auto_select_model
    settings_file,      \* the file at settings_path(): absent, or its contents
    settings_tmp,       \* the file at settings_path().with_extension("json.tmp")
    sv,                 \* the store::save call in progress
    backend,            \* WhisperBackend with several models: context, loaded_model; the model files on disk
    loaders,            \* the ensure_model calls in progress
    infer,              \* the transcribe_sync call in progress
    paths,              \* the models directory: the inode at model_path(model) and at its .bin.tmp, 0 when absent
    inodes,             \* the bytes of each inode (0 where nothing was written)
    ctrl_settings,      \* AppController.settings as the settings commands see it
    setters,            \* the settings-mutating commands in progress
    hs,                 \* the set_hotkey commands in progress
    clipboard,          \* the text on the system clipboard
    pst,                \* PasteService: the paste calls made, and the restore threads not yet run
    dw,                 \* the concurrent download_model calls of one model: position, open file, offset
    last                \* history: the operation of the last step and what it returned

ctrlVars  == <<state, recording_start, last_transcription, last_error>>
setVars   == <<hotkey_mode, auto_paste>>
audioVars == <<buffer, stop_signal, capture_thread, last_captured>>
engVars   == <<loaded_model, abort_flag, ctx_holder>>
modelVars == <<final_file, tmp_file, dl>>
keyVars   == <<hotkey, current_shortcut, os_registered, suspended>>
procVars  == <<hk, tasks, cmd, orphans>>
dictVars  == <<ctrlVars, setVars, audioVars, engVars, procVars>>
selVars   == <<language, whisper_model, auto_select_model>>
storeVars == <<settings_file, settings_tmp, sv>>
backendVars == <<backend, loaders, infer>>
dwVars    == <<paths, inodes, dw>>
persistVars == <<ctrl_settings, setters>>
pasteVars == <<clipboard, pst>>
concVars  == <<backendVars, dwVars, persistVars, hs, pasteVars>>
sideVars  == <<tf, selVars, storeVars, concVars>>
vars      == <<ctrlVars, setVars, audioVars, engVars, modelVars, keyVars, sideVars, procVars, last>>

---------------------------------------------------------------------------
(* Bounds of the model *)

TickMs     == 150   \* granularity of the millisecond clock
TickSecs   == 30    \* granularity of the second clock
MaxTasks   == 1     \* hotkey transcription tasks in flight
MaxSamples == 1     \* samples that arrive one by one in a recording
MaxOrphans == 1     \* timed-out workers still waiting for the context
ModelLen    == 4    \* bytes of the model file the server holds
MaxChunkLen == 2    \* bytes in one chunk of the response stream
MaxPastes == 3          \* paste calls
MaxHotkeySetters == 2   \* concurrent set_hotkey commands
MaxSetters == 2         \* concurrent settings-mutating commands
MaxDownloads == 2       \* concurrent download_model calls for one model
MaxLoaders == 2         \* concurrent callers of ensure_model
MaxHotkeyLen == 5   \* words, '+' and blanks in a hotkey string handed to validate_hotkey

(* Program constants *)

MIN_RECORDING_MS           == 300
TARGET_SAMPLE_RATE         == 16000
MAX_BUFFER_SAMPLES         == 16000 * 60 * 15
TRANSCRIPTION_TIMEOUT_SECS == 60

AppState   == {"Idle", "Recording", "Transcribing", "Error"}
HotkeyMode == {"PushToTalk", "Toggle"}
Language   == {"English", "Swedish", "Norwegian", "Auto"}
WhisperModel ==
    {"TinyEn", "Tiny", "BaseEn", "Base",
     "KbWhisperTiny", "KbWhisperBase", "KbWhisperSmall", "KbWhisperMedium", "KbWhisperLarge",
     "NbWhisperTiny", "NbWhisperBase", "NbWhisperSmall", "NbWhisperMedium", "NbWhisperLarge",
     "SmallEn", "Small", "MediumEn", "Medium", "LargeV3Turbo"}
Texts      == {"t1"}
TaskIds    == 1..MaxTasks

NoAudioMsg   == "No audio captured"
ModelMissing == "Model not downloaded"
ModelLoadErr == "Failed to load model"
InferenceErr == "Whisper inference failed"
ModelDownloadFailed == "ModelDownloadFailed"
HotkeyRegisterErr   == "Failed to register hotkey"
PersistErr          == "Failed to save settings"

DefaultHotkey == "Control+Shift+Space"
Shortcuts     == {DefaultHotkey, "Alt+D", "Control+Alt+R"}

\* the bytes served at model.download_url()
ModelBytes == [i \in 1..ModelLen |-> i]

Min(a, b) == IF a < b THEN a ELSE b
Max(a, b) == IF a > b THEN a ELSE b

\* The history record of a step: the operation and what it returned; whether
\* PasteService.paste ran for it and on which thread; whether the result
\* belongs to a cancelled dictation; arg is the operation's argument where a
\* property needs it; held is the set of blocking calls the step made while it
\* held the controller's mutex.
Ev(op, ret) == [op |-> op, arg |-> "none", ret |-> ret,
                paste |-> FALSE, thread |-> "none", cancelled |-> FALSE,
                held |-> {}]

---------------------------------------------------------------------------
(* AppState *)

is_recording(s) == s = "Recording"

(* AudioCaptureService *)

\* start_capture: clears the buffer and the stop signal, spawns the capture
\* thread and returns Ok(()); what run_capture returns stays in the thread.
start_capture(device_ok) ==
    /\ buffer' = 0
    /\ stop_signal' = FALSE
    /\ capture_thread' = << IF device_ok THEN "running" ELSE "failed" >>
    /\ UNCHANGED last_captured

start_capture_result(device_ok) == "ok"

stop_capture_NoJoin ==
    /\ stop_signal' = TRUE
    /\ buffer' = 0
    /\ last_captured' = << buffer >>
    /\ UNCHANGED capture_thread

\* stop_capture: sets the stop signal, joins the thread, takes the buffer.
stop_capture ==
    /\ stop_signal' = TRUE
    /\ capture_thread' = << >>
    /\ buffer' = 0
    /\ last_captured' = << buffer >>

\* process_samples: the length of the block after the mix to mono
\* (data.chunks(channels)) and after the resampling to 16 kHz
mono_len(data_len, channels) ==
    IF channels > 1 THEN (data_len + channels - 1) \div channels ELSE data_len

\* floor(n * num / den), computed without leaving 32 bits
scaled(n, num, den) == (n \div den) * num + ((n % den) * num) \div den

RECURSIVE gcd(_, _)
gcd(a, b) == IF b = 0 THEN a ELSE gcd(b, a % b)

\* out_len = (mono.len() as f64 * ratio) as usize, ratio = 16000 / device_rate
samples_len(data_len, channels, device_rate) ==
    IF device_rate # TARGET_SAMPLE_RATE
    THEN scaled(mono_len(data_len, channels),
                TARGET_SAMPLE_RATE \div gcd(TARGET_SAMPLE_RATE, device_rate),
                device_rate \div gcd(TARGET_SAMPLE_RATE, device_rate))
    ELSE mono_len(data_len, channels)

process_samples_Truncates(data_len, channels, device_rate) ==
    buffer' = Min(buffer + samples_len(data_len, channels, device_rate), MAX_BUFFER_SAMPLES + 1)

\* process_samples: the block is appended when it fits
process_samples(data_len, channels, device_rate) ==
    buffer' = IF buffer + samples_len(data_len, channels, device_rate) <= MAX_BUFFER_SAMPLES
              THEN buffer + samples_len(data_len, channels, device_rate)
              ELSE buffer

\* the devices: channel counts, sample rates, frames of audio in one callback
DeviceChannels == {1, 2}
DeviceRates    == {TARGET_SAMPLE_RATE, 48000}
BlockFrames    == {MAX_BUFFER_SAMPLES \div 2, MAX_BUFFER_SAMPLES, 3 * (MAX_BUFFER_SAMPLES \div 2)}

\* The stream callback of a running capture thread, with one sample at 16 kHz mono.
CaptureCallback ==
    /\ capture_thread = << "running" >>
    /\ buffer < MaxSamples
    /\ process_samples(1, 1, TARGET_SAMPLE_RATE)
    /\ last' = [Ev("samples", "none") EXCEPT !.arg = 1]
    /\ UNCHANGED <<ctrlVars, setVars, stop_signal, capture_thread, last_captured,
                   engVars, modelVars, keyVars, sideVars, procVars>>

\* The stream callback of a running capture thread, with minutes of audio.
CaptureBlock ==
    /\ capture_thread = << "running" >>
    /\ \E frames \in BlockFrames, channels \in DeviceChannels, device_rate \in DeviceRates :
          /\ process_samples(frames * channels, channels, device_rate)
          /\ last' = [Ev("samples", "none") EXCEPT
                         !.arg = samples_len(frames * channels, channels, device_rate)]
    /\ UNCHANGED <<ctrlVars, setVars, stop_signal, capture_thread, last_captured,
                   engVars, modelVars, keyVars, sideVars, procVars>>

---------------------------------------------------------------------------
(* AppController *)

recording_elapsed == IF recording_start = << >> THEN 0 ELSE recording_start[1]

start_recording_NoGuard(device_ok) ==
    /\ start_capture(device_ok)
    /\ state' = "Recording"
    /\ recording_start' = << 0 >>
    /\ last_error' = << >>
    /\ UNCHANGED last_transcription

start_recording(device_ok) ==
    IF state # "Idle"
    THEN UNCHANGED <<ctrlVars, audioVars>>
    ELSE IF start_capture_result(device_ok) # "ok"
         THEN start_capture(device_ok) /\ UNCHANGED ctrlVars
         ELSE /\ start_capture(device_ok)
              /\ state' = "Recording"
              /\ recording_start' = << 0 >>
              /\ last_error' = << >>
              /\ UNCHANGED last_transcription

\* the blocking calls of start_recording: start_capture (thread::spawn and the
\* 50 ms sleep), reached when the guard passes
start_recording_blocks == IF state # "Idle" THEN {} ELSE {"capture_start"}

start_recording_result(device_ok) ==
    IF state # "Idle" THEN "ok" ELSE start_capture_result(device_ok)

handle_hotkey_down_AlwaysStart(device_ok) ==
    IF state = "Transcribing"
    THEN UNCHANGED <<ctrlVars, audioVars>>
    ELSE start_recording_NoGuard(device_ok)

handle_hotkey_down(device_ok) ==
    IF hotkey_mode = "PushToTalk"
    THEN start_recording(device_ok)
    ELSE IF is_recording(state)
         THEN UNCHANGED <<ctrlVars, audioVars>>
         ELSE IF state = "Idle"
              THEN start_recording(device_ok)
              ELSE UNCHANGED <<ctrlVars, audioVars>>

\* the blocking calls of handle_hotkey_down: those of start_recording, which
\* both modes reach only in Idle
handle_hotkey_down_blocks ==
    IF hotkey_mode = "PushToTalk"
    THEN start_recording_blocks
    ELSE IF is_recording(state)
         THEN {}
         ELSE IF state = "Idle" THEN start_recording_blocks ELSE {}

should_stop_on_key_up_AnyMode == is_recording(state)

should_stop_on_key_up == hotkey_mode = "PushToTalk" /\ is_recording(state)

stop_recording ==
    /\ stop_capture
    /\ state' = "Transcribing"
    /\ UNCHANGED <<recording_start, last_transcription, last_error>>

on_transcription_success(text) ==
    /\ last_transcription' = << text >>
    /\ last_captured' = << >>
    /\ state' = "Idle"
    /\ UNCHANGED <<recording_start, last_error, buffer, stop_signal, capture_thread>>

on_transcription_error(error) ==
    /\ last_error' = << error >>
    /\ state' = "Idle"
    /\ UNCHANGED <<recording_start, last_transcription, audioVars>>

\* the blocking call of stop_recording: stop_capture (the join)
stop_recording_blocks == {"capture_stop"}

\* the blocking call of cancel_recording: stop_capture, when recording
cancel_recording_blocks == IF is_recording(state) THEN {"capture_stop"} ELSE {}

cancel_recording_KeepsCapturing ==
    IF is_recording(state)
    THEN /\ state' = "Idle"
         /\ UNCHANGED <<recording_start, last_transcription, last_error, audioVars>>
    ELSE UNCHANGED <<ctrlVars, audioVars>>

cancel_recording ==
    IF is_recording(state)
    THEN /\ stop_capture
         /\ state' = "Idle"
         /\ UNCHANGED <<recording_start, last_transcription, last_error>>
    ELSE UNCHANGED <<ctrlVars, audioVars>>

---------------------------------------------------------------------------
(* ModelStore (transcription/model.rs) *)

\* model_path(model).exists()
model_on_disk == final_file # << >>

is_model_downloaded == model_on_disk

DlIdle == [pc |-> "idle", pos |-> 0, downloaded |-> 0, chunks |-> 0, progress |-> << >>]

(* Settings (settings/manager.rs) *)

recommended_SwedishGetsBase(lang) ==
    CASE lang = "English"   -> "BaseEn"
      [] lang = "Swedish"   -> "Base"
      [] lang = "Norwegian" -> "NbWhisperBase"
      [] lang = "Auto"      -> "Base"

\* WhisperModel::recommended
recommended(lang) ==
    CASE lang = "English"   -> "BaseEn"
      [] lang = "Swedish"   -> "KbWhisperBase"
      [] lang = "Norwegian" -> "NbWhisperBase"
      [] lang = "Auto"      -> "Base"

\* WhisperModel::models_for_language: the slice it returns
models_for_language(lang) ==
    CASE lang = "English"   -> << "TinyEn", "BaseEn", "SmallEn", "MediumEn" >>
      [] lang = "Swedish"   -> << "KbWhisperTiny", "KbWhisperBase", "KbWhisperSmall",
                                  "KbWhisperMedium", "KbWhisperLarge" >>
      [] lang = "Norwegian" -> << "NbWhisperTiny", "NbWhisperBase", "NbWhisperSmall",
                                  "NbWhisperMedium", "NbWhisperLarge" >>
      [] lang = "Auto"      -> << "Tiny", "Base", "Small", "Medium", "LargeV3Turbo" >>

\* slice.contains(x)
contains(slice, x) == \E i \in DOMAIN slice : slice[i] = x

\* Settings::effective_model
effective_model ==
    IF auto_select_model THEN recommended(language) ELSE whisper_model

(* Settings as JSON (serde attributes of settings/manager.rs) *)

SettingsKeys == {"language", "whisper_model", "hotkey_mode", "show_overlay",
                 "auto_paste", "auto_select_model", "hotkey"}

\* a key of the UI layer's store in the same file
ForeignKeys == {"hasCompletedOnboarding"}

\* Settings::default()
DefaultSettings ==
    [language |-> "English", whisper_model |-> "Base", hotkey_mode |-> "PushToTalk",
     show_overlay |-> TRUE, auto_paste |-> TRUE, auto_select_model |-> TRUE,
     hotkey |-> DefaultHotkey]

\* the values of a field of Settings
FieldValues(k) ==
    CASE k = "language"      -> Language
      [] k = "whisper_model" -> WhisperModel
      [] k = "hotkey_mode"   -> HotkeyMode
      [] k = "hotkey"        -> Shortcuts
      [] OTHER               -> BOOLEAN

\* the Settings values handed to save: the default, and the default with one
\* field set to any of its values
SettingsValues ==
    UNION {{[DefaultSettings EXCEPT ![k] = x] : x \in FieldValues(k)} : k \in SettingsKeys}

\* serde names of the enum variants
language_name(l) ==
    CASE l = "English" -> "en" [] l = "Swedish" -> "sv" [] l = "Norwegian" -> "no" [] l = "Auto" -> "auto"

model_name(m) ==
    CASE m = "TinyEn" -> "tiny.en" [] m = "Tiny" -> "tiny" [] m = "BaseEn" -> "base.en"
      [] m = "Base" -> "base"
      [] m = "KbWhisperTiny" -> "kb-whisper-tiny" [] m = "KbWhisperBase" -> "kb-whisper-base"
      [] m = "KbWhisperSmall" -> "kb-whisper-small" [] m = "KbWhisperMedium" -> "kb-whisper-medium"
      [] m = "KbWhisperLarge" -> "kb-whisper-large"
      [] m = "NbWhisperTiny" -> "nb-whisper-tiny" [] m = "NbWhisperBase" -> "nb-whisper-base"
      [] m = "NbWhisperSmall" -> "nb-whisper-small" [] m = "NbWhisperMedium" -> "nb-whisper-medium"
      [] m = "NbWhisperLarge" -> "nb-whisper-large"
      [] m = "SmallEn" -> "small.en" [] m = "Small" -> "small"
      [] m = "MediumEn" -> "medium.en" [] m = "Medium" -> "medium"
      [] m = "LargeV3Turbo" -> "large-v3-turbo"

mode_name(m) == CASE m = "PushToTalk" -> "push" [] m = "Toggle" -> "toggle"

\* JSON values: a string, a boolean, null
JsonString(str) == [t |-> "string", v |-> str]
JsonBool(b)     == [t |-> "bool", v |-> IF b THEN "true" ELSE "false"]
JsonNull        == [t |-> "null", v |-> "null"]

EmptyObj == [k \in {} |-> JsonNull]

\* the text of a file that is not a JSON object (a write cut short, for one)
Garbage == [ok |-> FALSE, obj |-> EmptyObj]

JsonObject(obj) == [ok |-> TRUE, obj |-> obj]

\* Serialize for one field of Settings
field_to_value_NorwegianAsNb(k, x) ==
    CASE k = "language"      -> JsonString(IF x = "Norwegian" THEN "nb" ELSE language_name(x))
      [] k = "whisper_model" -> JsonString(model_name(x))
      [] k = "hotkey_mode"   -> JsonString(mode_name(x))
      [] k = "hotkey"        -> JsonString(x)
      [] OTHER               -> JsonBool(x)

field_to_value(k, x) ==
    CASE k = "language"      -> JsonString(language_name(x))
      [] k = "whisper_model" -> JsonString(model_name(x))
      [] k = "hotkey_mode"   -> JsonString(mode_name(x))
      [] k = "hotkey"        -> JsonString(x)
      [] OTHER               -> JsonBool(x)

\* serde_json::to_value(settings): an object with every field
to_value(settings) == [k \in SettingsKeys |-> field_to_value(k, settings[k])]

\* Deserialize for one field: whether the value is accepted, and what it yields
field_accepts(k, j) ==
    CASE k = "language"      -> j.t = "string" /\ \E l \in Language : language_name(l) = j.v
      [] k = "whisper_model" -> j.t = "string" /\ \E m \in WhisperModel : model_name(m) = j.v
      [] k = "hotkey_mode"   -> j.t = "string" /\ \E m \in HotkeyMode : mode_name(m) = j.v
      [] k = "hotkey"        -> j.t = "string"
      [] OTHER               -> j.t = "bool"

field_from_value(k, j) ==
    CASE k = "language"      -> CHOOSE l \in Language : language_name(l) = j.v
      [] k = "whisper_model" -> CHOOSE m \in WhisperModel : model_name(m) = j.v
      [] k = "hotkey_mode"   -> CHOOSE m \in HotkeyMode : mode_name(m) = j.v
      [] k = "hotkey"        -> j.v
      [] OTHER               -> j.v = "true"

\* serde_json::from_str::<Settings> under #[serde(default)]: unknown keys are
\* skipped, a missing field comes from Settings::default(), a field that
\* does not deserialize fails the whole value
settings_from_str(contents) ==
    IF ~contents.ok THEN << >>
    ELSE IF \E k \in DOMAIN contents.obj \cap SettingsKeys : ~field_accepts(k, contents.obj[k])
    THEN << >>
    ELSE << [k \in SettingsKeys |->
                IF k \in DOMAIN contents.obj THEN field_from_value(k, contents.obj[k])
                ELSE DefaultSettings[k]] >>

\* no save call in progress, and no Settings value known to be in the file
SvIdle == [pc |-> "idle", settings |-> << >>, saved |-> << >>]

\* serde_json::from_str::<Map<String, Value>>(..).unwrap_or_default()
map_from_str(contents) == IF contents.ok THEN contents.obj ELSE EmptyObj

\* the map save writes: the existing map with every field of settings put in
merged(map, settings) ==
    [k \in DOMAIN map \cup SettingsKeys |->
        IF k \in SettingsKeys THEN to_value(settings)[k] ELSE map[k]]

(* validate_hotkey (cli/config.rs) *)

MODIFIERS ==
    {"shift", "control", "ctrl", "alt", "option", "super", "command", "cmd",
     "commandorcontrol", "commandorctrl", "cmdorctrl", "cmdorcontrol"}

KEYS ==
    {"keya", "keyb", "keyc", "keyd", "keye", "keyf", "keyg", "keyh", "keyi",
     "keyj", "keyk", "keyl", "keym", "keyn", "keyo", "keyp", "keyq", "keyr",
     "keys", "keyt", "keyu", "keyv", "keyw", "keyx", "keyy", "keyz",
     "a", "b", "c", "d", "e", "f", "g", "h", "i", "j", "k", "l", "m",
     "n", "o", "p", "q", "r", "s", "t", "u", "v", "w", "x", "y", "z",
     "digit0", "digit1", "digit2", "digit3", "digit4",
     "digit5", "digit6", "digit7", "digit8", "digit9",
     "0", "1", "2", "3", "4", "5", "6", "7", "8", "9",
     "f1", "f2", "f3", "f4", "f5", "f6", "f7", "f8", "f9", "f10",
     "f11", "f12", "f13", "f14", "f15", "f16", "f17", "f18", "f19", "f20",
     "f21", "f22", "f23", "f24",
     "home", "end", "pageup", "pagedown",
     "arrowup", "arrowdown", "arrowleft", "arrowright",
     "up", "down", "left", "right",
     "backspace", "delete", "enter", "tab", "space",
     "escape", "esc",
     "backquote", "`", "backslash", "\\",
     "bracketleft", "[", "bracketright", "]",
     "comma", ",", "equal", "=", "minus", "-",
     "period", ".", "quote", "'", "semicolon", ";", "slash", "/",
     "capslock", "numlock", "scrolllock",
     "pause", "pausebreak", "printscreen", "insert",
     "numpad0", "numpad1", "numpad2", "numpad3", "numpad4",
     "numpad5", "numpad6", "numpad7", "numpad8", "numpad9",
     "num0", "num1", "num2", "num3", "num4",
     "num5", "num6", "num7", "num8", "num9",
     "numpadadd", "numadd", "numpadplus", "numplus",
     "numpadsubtract", "numsubtract",
     "numpadmultiply", "nummultiply",
     "numpaddivide", "numdivide",
     "numpaddecimal", "numdecimal",
     "numpadequal", "numequal",
     "numpadenter", "numenter",
     "mediaplay", "mediapause", "mediaplaypause", "mediastop",
     "mediatracknext", "mediatrackprevious", "mediatrackprev",
     "audiovolumeup", "volumeup",
     "audiovolumedown", "volumedown",
     "audiovolumemute", "volumemute"}

\* A hotkey string is a sequence of pieces: a '+', a blank, or a word (a run
\* of other characters).  No two words of Words make a known name together.
Words   == {"Control", "SHIFT", "Space", "space", "FooBar", "Hyper"}
Symbols == {"+", " "} \cup Words

HotkeyInputs == UNION {[1..n -> Symbols] : n \in 0..MaxHotkeyLen}

\* str::to_lowercase of a word
lowercase_word(w) ==
    CASE w = "Control" -> "control"
      [] w = "SHIFT"   -> "shift"
      [] w = "Space"   -> "space"
      [] w = "space"   -> "space"
      [] w = "FooBar"  -> "foobar"
      [] w = "Hyper"   -> "hyper"
      [] OTHER         -> w

\* str::to_lowercase of a trimmed token: one word, or several pieces, which
\* is no name of either list
to_lowercase(tok) == IF Len(tok) = 1 THEN lowercase_word(tok[1]) ELSE "several words"

\* value.split('+')
RECURSIVE split(_)
split(value) ==
    IF \A i \in 1..Len(value) : value[i] # "+"
    THEN << value >>
    ELSE LET p == CHOOSE i \in 1..Len(value) :
                     value[i] = "+" /\ \A j \in 1..(i - 1) : value[j] # "+"
         IN << SubSeq(value, 1, p - 1) >> \o split(SubSeq(value, p + 1, Len(value)))

\* str::trim
RECURSIVE trim(_)
trim(tok) ==
    IF tok # << >> /\ Head(tok) = " " THEN trim(Tail(tok))
    ELSE IF tok # << >> /\ tok[Len(tok)] = " " THEN trim(SubSeq(tok, 1, Len(tok) - 1))
    ELSE tok

\* value.split('+').map(|t| t.trim()).collect()
hotkey_tokens(value) == [i \in 1..Len(split(value)) |-> trim(split(value)[i])]

validate_hotkey_KeyAlone(value) ==
    LET tokens   == hotkey_tokens(value)
        n        == Len(tokens)
        key      == to_lowercase(tokens[n])
        bad_mods == {i \in 1..(n - 1) : to_lowercase(tokens[i]) \notin MODIFIERS}
        first    == CHOOSE i \in bad_mods : \A j \in bad_mods : i <= j
    IN IF n = 0 \/ \E i \in 1..n : tokens[i] = << >> THEN "empty or malformed"
       ELSE IF key \notin KEYS
       THEN IF key \in MODIFIERS THEN "is a modifier, not a key" ELSE "unknown key"
       ELSE IF bad_mods # {}
       THEN IF to_lowercase(tokens[first]) \in KEYS THEN "is a key, not a modifier"
            ELSE "unknown modifier"
       ELSE "ok"

\* validate_hotkey: "ok", or which error it returns
validate_hotkey(value) ==
    LET tokens   == hotkey_tokens(value)
        n        == Len(tokens)
        key      == to_lowercase(tokens[n])
        bad_mods == {i \in 1..(n - 1) : to_lowercase(tokens[i]) \notin MODIFIERS}
        first    == CHOOSE i \in bad_mods : \A j \in bad_mods : i <= j
    IN IF n = 0 \/ \E i \in 1..n : tokens[i] = << >> THEN "empty or malformed"
       ELSE IF key \notin KEYS
       THEN IF key \in MODIFIERS THEN "is a modifier, not a key" ELSE "unknown key"
       ELSE IF bad_mods # {}
       THEN IF to_lowercase(tokens[first]) \in KEYS THEN "is a key, not a modifier"
            ELSE "unknown modifier"
       ELSE IF n = 1 THEN "at least one modifier is required"
       ELSE "ok"

(* HotkeyService *)

set_shortcut(shortcut) == current_shortcut' = << shortcut >>

\* suspend: the flag goes up, whatever it was
Suspend ==
    /\ suspended' = TRUE
    /\ last' = Ev("suspend", "none")
    /\ UNCHANGED <<hotkey, current_shortcut, os_registered, modelVars, sideVars,
                   ctrlVars, setVars, audioVars, engVars, procVars>>

\* resume: the flag goes down, whatever it was
Resume ==
    /\ suspended' = FALSE
    /\ last' = Ev("resume", "none")
    /\ UNCHANGED <<hotkey, current_shortcut, os_registered, modelVars, sideVars,
                   ctrlVars, setVars, audioVars, engVars, procVars>>

---------------------------------------------------------------------------
(* WhisperBackend *)

needs_reload == loaded_model = << >>

\* ensure_model / load_model: what it returns for the effective model.
ensure_model_result(ctx_ok) ==
    IF ~needs_reload THEN "ok"
    ELSE IF ~model_on_disk THEN ModelMissing
    ELSE IF ~ctx_ok THEN ModelLoadErr
    ELSE "ok"

ensure_model(ctx_ok) ==
    loaded_model' = IF ensure_model_result(ctx_ok) = "ok" THEN << TRUE >> ELSE loaded_model

request_abort == abort_flag' = TRUE

---------------------------------------------------------------------------
(* WhisperBackend with more than one model (transcription/whisper_backend.rs):
   context and loaded_model are two mutexes; load_model builds the new context,
   then stores it, then stores the tag *)

BackendModels == {"Base", "SmallEn"}
LoaderIds == 1..MaxLoaders
LoaderIdle == [pc |-> "idle", model |-> "none"]
InferIdle == [pc |-> "idle", ctx |-> "none", model |-> "none"]

\* WhisperModel::no_speech_threshold, in tenths
no_speech_threshold(m) == IF m = "SmallEn" THEN 0 ELSE 3

\* the WhisperContext values alive: the one in the context mutex and those a
\* load_model has built and not yet stored
contexts_alive ==
    (IF backend.context # << >> THEN 1 ELSE 0)
      + Cardinality({i \in LoaderIds : loaders[i].pc = "created"})

\* a model file appears at model_path(m)
ModelFileAppears ==
    /\ \E m \in BackendModels :
          /\ m \notin backend.disk
          /\ backend' = [backend EXCEPT !.disk = @ \cup {m}]
          /\ last' = [Ev("model_file", "none") EXCEPT !.arg = m]
    /\ UNCHANGED <<loaders, infer, dwVars, persistVars, hs, pasteVars, tf, selVars, storeVars, modelVars, keyVars, dictVars>>

load_model_begin_DropsOld(i, m, ctx_ok) ==
    IF m \notin backend.disk
    THEN /\ last' = [Ev("ensure_model", ModelMissing) EXCEPT !.arg = m]
         /\ UNCHANGED <<backend, loaders>>
    ELSE IF ~ctx_ok
         THEN /\ last' = [Ev("ensure_model", ModelLoadErr) EXCEPT !.arg = m]
              /\ backend' = [backend EXCEPT !.context = << >>, !.loaded_model = << >>]
              /\ UNCHANGED loaders
         ELSE /\ loaders' = [loaders EXCEPT ![i] = [pc |-> "created", model |-> m]]
              /\ backend' = [backend EXCEPT !.context = << >>, !.loaded_model = << >>]
              /\ last' = [Ev("load_model", "context_created") EXCEPT !.arg = m]

\* load_model up to WhisperContext::new_with_params: the file is missing, the
\* context cannot be built, or the new context exists
load_model_begin(i, m, ctx_ok) ==
    IF m \notin backend.disk
    THEN /\ last' = [Ev("ensure_model", ModelMissing) EXCEPT !.arg = m]
         /\ UNCHANGED <<backend, loaders>>
    ELSE IF ~ctx_ok
         THEN /\ last' = [Ev("ensure_model", ModelLoadErr) EXCEPT !.arg = m]
              /\ UNCHANGED <<backend, loaders>>
         ELSE /\ loaders' = [loaders EXCEPT ![i] = [pc |-> "created", model |-> m]]
              /\ last' = [Ev("load_model", "context_created") EXCEPT !.arg = m]
              /\ UNCHANGED backend

\* ensure_model(desired_model): needs_reload, then load_model
EnsureModel(i) ==
    /\ loaders[i].pc = "idle"
    /\ \E m \in BackendModels, ctx_ok \in BOOLEAN :
          IF backend.loaded_model = << m >>
          THEN /\ last' = [Ev("ensure_model", "ok") EXCEPT !.arg = m]
               /\ UNCHANGED <<backend, loaders>>
          ELSE load_model_begin(i, m, ctx_ok)
    /\ UNCHANGED <<infer, dwVars, persistVars, hs, pasteVars, tf, selVars, storeVars, modelVars, keyVars, dictVars>>

\* load_model: *self.context.lock().unwrap() = Some(ctx); the old context is dropped
LoadModelStoreContext(i) ==
    /\ loaders[i].pc = "created"
    /\ infer.pc = "idle"
    /\ backend' = [backend EXCEPT !.context = << loaders[i].model >>]
    /\ loaders' = [loaders EXCEPT ![i].pc = "stored"]
    /\ last' = [Ev("load_model", "context_stored") EXCEPT !.arg = loaders[i].model]
    /\ UNCHANGED <<infer, dwVars, persistVars, hs, pasteVars, tf, selVars, storeVars, modelVars, keyVars, dictVars>>

\* load_model: *self.loaded_model.lock().unwrap() = Some(whisper_model); Ok(())
LoadModelStoreTag(i) ==
    /\ loaders[i].pc = "stored"
    /\ backend' = [backend EXCEPT !.loaded_model = << loaders[i].model >>]
    /\ loaders' = [loaders EXCEPT ![i] = LoaderIdle]
    /\ last' = [Ev("load_model", "ok") EXCEPT !.arg = loaders[i].model]
    /\ UNCHANGED <<infer, dwVars, persistVars, hs, pasteVars, tf, selVars, storeVars, modelVars, keyVars, dictVars>>

\* transcribe_sync_with_progress: self.context.lock(), ctx_guard.as_ref()
TranscribeLock ==
    /\ infer.pc = "idle"
    /\ IF backend.context = << >>
       THEN /\ last' = Ev("transcribe_sync", "ModelNotLoaded")
            /\ UNCHANGED infer
       ELSE /\ infer' = [pc |-> "locked", ctx |-> backend.context[1], model |-> "none"]
            /\ last' = Ev("transcribe_sync", "locked")
    /\ UNCHANGED <<backend, loaders, dwVars, persistVars, hs, pasteVars, tf, selVars, storeVars, modelVars, keyVars, dictVars>>

\* transcribe_sync_with_progress: self.loaded_model(), model.no_speech_threshold(),
\* state.full begins
TranscribeReadModel ==
    /\ infer.pc = "locked"
    /\ IF backend.loaded_model = << >>
       THEN /\ infer' = InferIdle
            /\ last' = Ev("transcribe_sync", "ModelNotLoaded")
       ELSE /\ infer' = [infer EXCEPT !.pc = "running", !.model = backend.loaded_model[1]]
            /\ last' = [Ev("full", "none") EXCEPT
                           !.arg = no_speech_threshold(backend.loaded_model[1])]
    /\ UNCHANGED <<backend, loaders, dwVars, persistVars, hs, pasteVars, tf, selVars, storeVars, modelVars, keyVars, dictVars>>

\* transcribe_sync_with_progress returns; the context guard is dropped
TranscribeReturn ==
    /\ infer.pc = "running"
    /\ infer' = InferIdle
    /\ last' = Ev("transcribe_sync", "ok")
    /\ UNCHANGED <<backend, loaders, dwVars, persistVars, hs, pasteVars, tf, selVars, storeVars, modelVars, keyVars, dictVars>>

---------------------------------------------------------------------------
(* download_model (transcription/model.rs) called more than once for one
   model: the calls share tmp_path; File::create truncates the file that is
   there, and each open file writes at its own offset *)

DlWorkers == 1..MaxDownloads
InodeIds == 1..(MaxDownloads + 1)
DwIdle == [pc |-> "idle", ino |-> 0, pos |-> 0]

\* the inodes no path names and no download has open
FreeInodes ==
    {k \in InodeIds : /\ paths.tmp # k
                      /\ paths.final # k
                      /\ \A w \in DlWorkers : dw[w].ino # k}

\* write_all(chunk) on an open file at offset pos: a gap is filled with zeros
write_at(bytes, pos, chunk) ==
    [j \in 1..Max(Len(bytes), pos + Len(chunk)) |->
        IF j > pos /\ j <= pos + Len(chunk) THEN chunk[j - pos]
        ELSE IF j <= Len(bytes) THEN bytes[j] ELSE 0]

\* path.exists() -> Ok(path); else the GET is sent
DwStart(w) ==
    /\ dw[w].pc = "idle"
    /\ IF paths.final # 0
       THEN /\ last' = [Ev("download_model", "ok") EXCEPT !.arg = w]
            /\ UNCHANGED dw
       ELSE /\ dw' = [dw EXCEPT ![w].pc = "sending"]
            /\ last' = [Ev("download_start", "none") EXCEPT !.arg = w]
    /\ UNCHANGED <<paths, inodes, backendVars, persistVars, hs, pasteVars, tf, selVars, storeVars, modelVars, keyVars, dictVars>>

\* the response arrives; File::create(tmp_path) creates the file or truncates it
DwCreate(w) ==
    /\ dw[w].pc = "sending"
    /\ \E send_ok \in BOOLEAN :
          IF ~send_ok
          THEN /\ dw' = [dw EXCEPT ![w] = DwIdle]
               /\ last' = [Ev("download_model", ModelDownloadFailed) EXCEPT !.arg = w]
               /\ UNCHANGED <<paths, inodes>>
          ELSE LET k == IF paths.tmp # 0 THEN paths.tmp
                        ELSE CHOOSE f \in FreeInodes : \A g \in FreeInodes : f <= g
               IN /\ paths' = [paths EXCEPT !.tmp = k]
                  /\ inodes' = [inodes EXCEPT ![k] = << >>]
                  /\ dw' = [dw EXCEPT ![w] = [pc |-> "streaming", ino |-> k, pos |-> 0]]
                  /\ last' = [Ev("download_response", "ok") EXCEPT !.arg = w]
    /\ UNCHANGED <<backendVars, persistVars, hs, pasteVars, tf, selVars, storeVars, modelVars, keyVars, dictVars>>

\* stream.next() yields a chunk: file.write_all(&chunk)
DwChunk(w) ==
    /\ dw[w].pc = "streaming"
    /\ \E n \in 1..MaxChunkLen :
          /\ dw[w].pos + n <= ModelLen
          /\ inodes' = [inodes EXCEPT ![dw[w].ino] =
                           write_at(@, dw[w].pos, SubSeq(ModelBytes, dw[w].pos + 1, dw[w].pos + n))]
          /\ dw' = [dw EXCEPT ![w].pos = @ + n]
    /\ last' = [Ev("download_chunk", "ok") EXCEPT !.arg = w]
    /\ UNCHANGED <<paths, backendVars, persistVars, hs, pasteVars, tf, selVars, storeVars, modelVars, keyVars, dictVars>>

\* stream.next() yields an error: the call returns, its file is closed
DwStreamErr(w) ==
    /\ dw[w].pc = "streaming"
    /\ dw' = [dw EXCEPT ![w] = DwIdle]
    /\ last' = [Ev("download_model", ModelDownloadFailed) EXCEPT !.arg = w]
    /\ UNCHANGED <<paths, inodes, backendVars, persistVars, hs, pasteVars, tf, selVars, storeVars, modelVars, keyVars, dictVars>>

\* the stream ends: file.flush(), drop(file)
DwFlush(w) ==
    /\ dw[w].pc = "streaming"
    /\ dw[w].pos = ModelLen
    /\ dw' = [dw EXCEPT ![w] = [pc |-> "renaming", ino |-> 0, pos |-> 0]]
    /\ last' = [Ev("download_flush", "ok") EXCEPT !.arg = w]
    /\ UNCHANGED <<paths, inodes, backendVars, persistVars, hs, pasteVars, tf, selVars, storeVars, modelVars, keyVars, dictVars>>

\* fs::rename(tmp_path, path): fails when tmp_path is not there
DwRename(w) ==
    /\ dw[w].pc = "renaming"
    /\ IF paths.tmp = 0
       THEN /\ last' = [Ev("download_model", ModelDownloadFailed) EXCEPT !.arg = w]
            /\ UNCHANGED paths
       ELSE /\ paths' = [tmp |-> 0, final |-> paths.tmp]
            /\ last' = [Ev("download_model", "ok") EXCEPT !.arg = w]
    /\ dw' = [dw EXCEPT ![w] = DwIdle]
    /\ UNCHANGED <<inodes, backendVars, persistVars, hs, pasteVars, tf, selVars, storeVars, modelVars, keyVars, dictVars>>

---------------------------------------------------------------------------
(* The settings-mutating commands (commands.rs): lock, change the settings,
   unlock; persist_settings: lock, clone, unlock; store::save of the clone *)

SetterIds == 1..MaxSetters
SetterIdle == [pc |-> "idle", snap |-> << >>, ret |-> "none"]

\* what the commands set: set_language(language), set_hotkey_mode(mode)
Mutations ==
    {[k |-> "language", x |-> l] : l \in {"English", "Swedish"}}
      \cup {[k |-> "hotkey_mode", x |-> m] : m \in HotkeyMode}

\* set_language / set_hotkey_mode up to drop(ctrl)
SetterMutate(c) ==
    /\ setters[c].pc = "idle"
    /\ \E mu \in Mutations :
          /\ ctrl_settings' = [ctrl_settings EXCEPT ![mu.k] = mu.x]
          /\ last' = [Ev("set_" \o mu.k, "none") EXCEPT !.arg = mu.x]
    /\ setters' = [setters EXCEPT ![c] = [pc |-> "mutated", snap |-> << >>, ret |-> "none"]]
    /\ UNCHANGED <<backendVars, dwVars, hs, pasteVars, tf, selVars, storeVars, modelVars, keyVars, dictVars>>

\* persist_settings: controller.lock().unwrap().settings().clone()
PersistClone(c) ==
    /\ setters[c].pc = "mutated"
    /\ setters' = [setters EXCEPT ![c].pc = "cloned", ![c].snap = << ctrl_settings >>]
    /\ last' = Ev("persist_settings", "cloned")
    /\ UNCHANGED <<ctrl_settings, backendVars, dwVars, hs, pasteVars, tf, selVars, storeVars, modelVars, keyVars, dictVars>>

\* store::save(&settings) up to fs::write(&tmp_path, &json)
PersistWrite(c) ==
    /\ setters[c].pc = "cloned"
    /\ LET map == IF settings_file # << >> THEN map_from_str(settings_file[1]) ELSE EmptyObj
       IN settings_tmp' = << JsonObject(merged(map, setters[c].snap[1])) >>
    /\ setters' = [setters EXCEPT ![c].pc = "written"]
    /\ last' = Ev("persist_settings", "written")
    /\ UNCHANGED <<ctrl_settings, backendVars, dwVars, hs, pasteVars, tf, selVars, settings_file, sv, modelVars, keyVars, dictVars>>

\* store::save: fs::rename(&tmp_path, &path), which fails when the .tmp file
\* is gone; the command returns what save returns
PersistRename(c) ==
    /\ setters[c].pc = "written"
    /\ IF settings_tmp = << >>
       THEN /\ setters' = [setters EXCEPT ![c] = [pc |-> "idle", snap |-> << >>,
                                                  ret |-> "Failed to rename settings file"]]
            /\ last' = Ev("persist_settings", "Failed to rename settings file")
            /\ UNCHANGED <<settings_file, settings_tmp>>
       ELSE /\ settings_file' = settings_tmp
            /\ settings_tmp' = << >>
            /\ setters' = [setters EXCEPT ![c] = [pc |-> "idle", snap |-> << >>, ret |-> "ok"]]
            /\ last' = Ev("persist_settings", "ok")
    /\ UNCHANGED <<ctrl_settings, backendVars, dwVars, hs, pasteVars, tf, selVars, sv, modelVars, keyVars, dictVars>>

---------------------------------------------------------------------------
(* set_hotkey (commands.rs), one step per call it makes, for calls that overlap *)

HotkeySetterIds == 1..MaxHotkeySetters
HsIdle == [pc |-> "idle", old |-> "none", new |-> "none"]

\* old_shortcut = ctrl.settings().hotkey.clone()
HsRead(c) ==
    /\ hs[c].pc = "idle"
    /\ \E shortcut \in Shortcuts :
          /\ hs' = [hs EXCEPT ![c] = [pc |-> "read", old |-> hotkey, new |-> shortcut]]
          /\ last' = [Ev("set_hotkey_call", "none") EXCEPT !.arg = shortcut]
    /\ UNCHANGED <<keyVars, backendVars, dwVars, persistVars, pasteVars, tf, selVars, storeVars, modelVars, dictVars>>

\* unregister(old_shortcut), its error ignored
HsUnregister(c) ==
    /\ hs[c].pc = "read"
    /\ \E unreg_ok \in BOOLEAN :
          os_registered' = IF unreg_ok THEN os_registered \ {hs[c].old} ELSE os_registered
    /\ hs' = [hs EXCEPT ![c].pc = "unregistered"]
    /\ last' = Ev("unregister", "none")
    /\ UNCHANGED <<hotkey, current_shortcut, suspended, backendVars, dwVars, persistVars, pasteVars, tf, selVars,
                   storeVars, modelVars, dictVars>>

\* register(shortcut); on failure register(old_shortcut), its error ignored, and Err
HsRegister(c) ==
    /\ hs[c].pc = "unregistered"
    /\ \E reg_ok, rereg_ok \in BOOLEAN :
          IF ~reg_ok
          THEN /\ os_registered' = IF rereg_ok THEN os_registered \cup {hs[c].old}
                                               ELSE os_registered
               /\ hs' = [hs EXCEPT ![c] = HsIdle]
               /\ last' = Ev("set_hotkey", HotkeyRegisterErr)
          ELSE /\ os_registered' = os_registered \cup {hs[c].new}
               /\ hs' = [hs EXCEPT ![c].pc = "registered"]
               /\ last' = Ev("register", "ok")
    /\ UNCHANGED <<hotkey, current_shortcut, suspended, backendVars, dwVars, persistVars, pasteVars, tf, selVars,
                   storeVars, modelVars, dictVars>>

\* settings.hotkey and the service's shortcut are set; persist_settings(..)?
HsUpdate(c) ==
    /\ hs[c].pc = "registered"
    /\ hotkey' = hs[c].new
    /\ set_shortcut(hs[c].new)
    /\ hs' = [hs EXCEPT ![c] = HsIdle]
    /\ \E persist_ok \in BOOLEAN :
          last' = Ev("set_hotkey", IF persist_ok THEN "ok" ELSE PersistErr)
    /\ UNCHANGED <<os_registered, suspended, backendVars, dwVars, persistVars, pasteVars, tf, selVars,
                   storeVars, modelVars, dictVars>>

---------------------------------------------------------------------------
(* PasteService (paste/service.rs) *)

\* what the user had copied, and the texts handed to paste
ClipboardBefore == "copied by the user"
PasteTexts == {"", "t1", "t2"}

\* paste(text): nothing for an empty text; else the clipboard text is saved,
\* text is set, the keystroke is sent (Err when the accessibility permission
\* is missing) and a thread is spawned that restores the saved text
paste(text, trusted) ==
    IF text = ""
    THEN /\ pst' = [pst EXCEPT !.n = @ + 1]
         /\ last' = [Ev("paste", "ok") EXCEPT !.arg = text]
         /\ UNCHANGED clipboard
    ELSE /\ clipboard' = text
         /\ IF ~trusted
            THEN /\ pst' = [pst EXCEPT !.n = @ + 1, !.failed = TRUE]
                 /\ last' = [Ev("paste", "AccessibilityPermissionDenied") EXCEPT !.arg = text]
            ELSE /\ pst' = [pst EXCEPT !.n = @ + 1, !.pending = Append(@, clipboard)]
                 /\ last' = [Ev("paste", "ok") EXCEPT !.arg = text]

Paste ==
    /\ pst.n < MaxPastes
    /\ \E text \in PasteTexts, trusted \in BOOLEAN : paste(text, trusted)
    /\ UNCHANGED <<backendVars, dwVars, persistVars, hs, tf, selVars, storeVars, modelVars, keyVars, dictVars>>

\* a restore thread, its 100 ms sleep over: cb.set_text(saved)
RestoreClipboard ==
    /\ \E i \in 1..Len(pst.pending) :
          /\ clipboard' = pst.pending[i]
          /\ pst' = [pst EXCEPT !.pending =
                         SubSeq(@, 1, i - 1) \o SubSeq(@, i + 1, Len(@))]
    /\ last' = Ev("restore_clipboard", "none")
    /\ UNCHANGED <<backendVars, dwVars, persistVars, hs, tf, selVars, storeVars, modelVars, keyVars, dictVars>>

---------------------------------------------------------------------------
InitState ==
    /\ state = "Idle"
    /\ recording_start = << >>
    /\ last_transcription = << >>
    /\ last_error = << >>
    /\ hotkey_mode = "PushToTalk"
    /\ auto_paste = TRUE
    /\ buffer = 0
    /\ stop_signal = FALSE
    /\ capture_thread = << >>
    /\ last_captured = << >>
    /\ loaded_model = << >>
    /\ abort_flag = FALSE
    /\ ctx_holder = "free"
    /\ final_file \in {<< >>, << ModelBytes >>}
    /\ tmp_file = << >>
    /\ dl = DlIdle
    /\ hotkey = DefaultHotkey
    /\ current_shortcut = << >>
    /\ os_registered = {DefaultHotkey}
    /\ suspended = FALSE
    /\ hk = [pc |-> "idle", sleep |-> 0]
    /\ tasks = [i \in TaskIds |-> [pc |-> "free", waited |-> 0, cancelled |-> FALSE]]
    /\ cmd = [pc |-> "idle", audio |-> 0, worker |-> "none", waited |-> 0, cancelled |-> FALSE]
    /\ orphans = 0
    /\ tf = [pc |-> "idle", worker |-> "none", waited |-> 0]
    /\ language = "English"
    /\ whisper_model = "Base"
    /\ auto_select_model = TRUE
    /\ settings_file = << >>
    /\ settings_tmp = << >>
    /\ sv = SvIdle
    /\ backend = [context |-> << >>, loaded_model |-> << >>, disk |-> {}]
    /\ loaders = [i \in LoaderIds |-> LoaderIdle]
    /\ infer = InferIdle
    /\ paths = [tmp |-> 0, final |-> 0]
    /\ inodes = [k \in InodeIds |-> << >>]
    /\ dw = [w \in DlWorkers |-> DwIdle]
    /\ ctrl_settings = DefaultSettings
    /\ setters = [c \in SetterIds |-> SetterIdle]
    /\ hs = [c \in HotkeySetterIds |-> HsIdle]
    /\ clipboard = ClipboardBefore
    /\ pst = [n |-> 0, failed |-> FALSE, pending |-> << >>]

Init ==
    /\ InitState
    /\ last = Ev("init", "none")


---------------------------------------------------------------------------
(* The global-shortcut handler (main.rs): one thread, one event at a time *)

FreeTask == CHOOSE i \in TaskIds : tasks[i].pc = "free" /\ \A j \in TaskIds : tasks[j].pc = "free" => i <= j

\* ShortcutState::Pressed
HotkeyPressed ==
    /\ hk.pc = "idle"
    /\ \E device_ok \in BOOLEAN :
          /\ handle_hotkey_down(device_ok)
          /\ last' = [Ev("hotkey_down", start_recording_result(device_ok)) EXCEPT
                          !.held = handle_hotkey_down_blocks]
    /\ UNCHANGED <<setVars, engVars, modelVars, keyVars, sideVars, procVars>>

\* ShortcutState::Released: handle_hotkey_release up to its sleep
HotkeyReleased ==
    /\ hk.pc = "idle"
    /\ should_stop_on_key_up => \E i \in TaskIds : tasks[i].pc = "free"
    /\ hk' = IF should_stop_on_key_up
             THEN [pc |-> "waiting",
                   sleep |-> IF recording_elapsed < MIN_RECORDING_MS
                             THEN MIN_RECORDING_MS - recording_elapsed ELSE 0]
             ELSE hk
    /\ last' = Ev("hotkey_up", IF should_stop_on_key_up THEN "stop" ELSE "none")
    /\ UNCHANGED <<ctrlVars, setVars, audioVars, engVars, modelVars, keyVars, sideVars, tasks, cmd, orphans>>

HotkeyStop_NoEmptyCheck ==
    /\ hk.pc = "waiting"
    /\ hk.sleep = 0
    /\ IF is_recording(state)
       THEN /\ stop_recording
            /\ hk' = [pc |-> "idle", sleep |-> 0]
            /\ tasks' = [tasks EXCEPT ![FreeTask] =
                            [pc |-> "spawned", waited |-> 0, cancelled |-> FALSE]]
            /\ last' = [Ev("hotkey_stop", "stopped") EXCEPT !.held = stop_recording_blocks]
       ELSE /\ hk' = [pc |-> "idle", sleep |-> 0]
            /\ last' = Ev("hotkey_stop", "none")
            /\ UNCHANGED <<ctrlVars, audioVars, tasks>>
    /\ UNCHANGED <<setVars, engVars, modelVars, keyVars, sideVars, cmd, orphans>>

\* handle_hotkey_release after the sleep: stop the recording and spawn the task
HotkeyStop ==
    /\ hk.pc = "waiting"
    /\ hk.sleep = 0
    /\ IF is_recording(state)
       THEN /\ stop_recording
            /\ IF buffer = 0
               THEN /\ hk' = [pc |-> "noaudio", sleep |-> 0]
                    /\ UNCHANGED tasks
               ELSE /\ hk' = [pc |-> "idle", sleep |-> 0]
                    /\ tasks' = [tasks EXCEPT ![FreeTask] =
                                    [pc |-> "spawned", waited |-> 0, cancelled |-> FALSE]]
            /\ last' = [Ev("hotkey_stop", "stopped") EXCEPT !.held = stop_recording_blocks]
       ELSE /\ hk' = [pc |-> "idle", sleep |-> 0]
            /\ last' = Ev("hotkey_stop", "none")
            /\ UNCHANGED <<ctrlVars, audioVars, tasks>>
    /\ UNCHANGED <<setVars, engVars, modelVars, keyVars, sideVars, cmd, orphans>>

\* handle_hotkey_release, audio.is_empty()
HotkeyNoAudio ==
    /\ hk.pc = "noaudio"
    /\ on_transcription_error(NoAudioMsg)
    /\ hk' = [pc |-> "idle", sleep |-> 0]
    /\ last' = Ev("on_transcription_error", NoAudioMsg)
    /\ UNCHANGED <<setVars, engVars, modelVars, keyVars, sideVars, tasks, cmd, orphans>>

(* The task handle_hotkey_release spawns *)

\* whisper.ensure_model, then spawn_blocking; the Err arm when it fails
TaskEnsureModel(i) ==
    /\ tasks[i].pc = "spawned"
    /\ \E ctx_ok \in BOOLEAN :
          /\ ensure_model(ctx_ok)
          /\ IF ensure_model_result(ctx_ok) = "ok"
             THEN /\ tasks' = [tasks EXCEPT ![i].pc = "queued"]
                  /\ last' = Ev("ensure_model", "ok")
                  /\ UNCHANGED <<ctrlVars, audioVars>>
             ELSE /\ on_transcription_error(ensure_model_result(ctx_ok))
                  /\ tasks' = [tasks EXCEPT ![i] = [pc |-> "free", waited |-> 0, cancelled |-> FALSE]]
                  /\ last' = Ev("on_transcription_error", ensure_model_result(ctx_ok))
    /\ UNCHANGED <<setVars, abort_flag, ctx_holder, modelVars, keyVars, sideVars, hk, cmd, orphans>>

\* transcribe_sync on the blocking worker: takes the context, resets the abort flag
TaskWorkerStart(i) ==
    /\ tasks[i].pc = "queued"
    /\ ctx_holder = "free"
    /\ ctx_holder' = "task"
    /\ abort_flag' = FALSE
    /\ tasks' = [tasks EXCEPT ![i].pc = "running"]
    /\ last' = Ev("inference_start", "none")
    /\ UNCHANGED <<ctrlVars, setVars, audioVars, loaded_model, modelVars, keyVars, sideVars, hk, cmd, orphans>>

\* the worker returns Ok(text): paste dispatched to the main thread when
\* auto_paste, then on_transcription_success
TaskOk(i) ==
    /\ tasks[i].pc = "running"
    /\ \E text \in Texts :
          /\ on_transcription_success(text)
          /\ last' = [Ev("on_transcription_success", text) EXCEPT
                          !.paste = auto_paste,
                          !.thread = IF auto_paste THEN "main" ELSE "none",
                          !.cancelled = tasks[i].cancelled]
    /\ ctx_holder' = "free"
    /\ tasks' = [tasks EXCEPT ![i] = [pc |-> "free", waited |-> 0, cancelled |-> FALSE]]
    /\ UNCHANGED <<setVars, loaded_model, abort_flag, modelVars, keyVars, sideVars, hk, cmd, orphans>>

\* the worker returns Err: on_transcription_error
TaskErr(i) ==
    /\ tasks[i].pc = "running"
    /\ on_transcription_error(InferenceErr)
    /\ last' = [Ev("on_transcription_error", InferenceErr) EXCEPT !.cancelled = tasks[i].cancelled]
    /\ ctx_holder' = "free"
    /\ tasks' = [tasks EXCEPT ![i] = [pc |-> "free", waited |-> 0, cancelled |-> FALSE]]
    /\ UNCHANGED <<setVars, loaded_model, abort_flag, modelVars, keyVars, sideVars, hk, cmd, orphans>>


---------------------------------------------------------------------------
(* The UI commands (commands.rs), each on a runtime thread of its own *)

CmdIdle == [pc |-> "idle", audio |-> 0, worker |-> "none", waited |-> 0, cancelled |-> FALSE]

\* start_recording
CmdStartRecording ==
    /\ \E device_ok \in BOOLEAN :
          /\ start_recording(device_ok)
          /\ last' = [Ev("start_recording", start_recording_result(device_ok)) EXCEPT
                          !.held = start_recording_blocks]
    /\ UNCHANGED <<setVars, engVars, modelVars, keyVars, sideVars, procVars>>

\* cancel_recording.  The history marks the inferences in flight when it is
\* invoked in Transcribing; the step in which such an inference's worker
\* returns carries the mark in last.cancelled.
CmdCancel ==
    /\ cancel_recording
    /\ tasks' = [i \in TaskIds |->
                    IF state = "Transcribing" /\ tasks[i].pc # "free"
                    THEN [tasks[i] EXCEPT !.cancelled = TRUE] ELSE tasks[i]]
    /\ cmd' = IF state = "Transcribing" /\ cmd.pc # "idle"
              THEN [cmd EXCEPT !.cancelled = TRUE] ELSE cmd
    /\ last' = [Ev("cancel", IF is_recording(state) THEN "cancelled" ELSE "none") EXCEPT
                    !.held = cancel_recording_blocks]
    /\ UNCHANGED <<setVars, engVars, modelVars, keyVars, sideVars, hk, orphans>>

\* stop_and_transcribe, its first critical section: ctrl.stop_recording()
CmdStop ==
    /\ cmd.pc = "idle"
    /\ orphans < MaxOrphans
    /\ stop_recording
    /\ cmd' = [CmdIdle EXCEPT !.pc = "stopped", !.audio = buffer]
    /\ last' = [Ev("stop_and_transcribe", "stopped") EXCEPT !.held = stop_recording_blocks]
    /\ UNCHANGED <<setVars, engVars, modelVars, keyVars, sideVars, hk, tasks, orphans>>

\* stop_and_transcribe: audio.is_empty(), else ensure_model(..)? and spawn_blocking
CmdDispatch ==
    /\ cmd.pc = "stopped"
    /\ IF cmd.audio = 0
       THEN /\ on_transcription_error(NoAudioMsg)
            /\ cmd' = CmdIdle
            /\ last' = Ev("on_transcription_error", NoAudioMsg)
            /\ UNCHANGED loaded_model
       ELSE \E ctx_ok \in BOOLEAN :
               /\ ensure_model(ctx_ok)
               /\ IF ensure_model_result(ctx_ok) = "ok"
                  THEN /\ cmd' = [cmd EXCEPT !.pc = "awaiting", !.worker = "queued", !.waited = 0]
                       /\ last' = Ev("ensure_model", "ok")
                  ELSE /\ cmd' = CmdIdle
                       /\ last' = Ev("cmd_return", ensure_model_result(ctx_ok))
               /\ UNCHANGED <<ctrlVars, audioVars>>
    /\ UNCHANGED <<setVars, abort_flag, ctx_holder, modelVars, keyVars, sideVars, hk, tasks, orphans>>

CmdWorkerStart_NoLock ==
    /\ cmd.pc = "awaiting"
    /\ cmd.worker = "queued"
    /\ ctx_holder' = "cmd"
    /\ abort_flag' = FALSE
    /\ cmd' = [cmd EXCEPT !.worker = "running"]
    /\ last' = Ev("inference_start", "none")
    /\ UNCHANGED <<ctrlVars, setVars, audioVars, loaded_model, modelVars, keyVars, sideVars, hk, tasks, orphans>>

\* the command's blocking worker takes the context and resets the abort flag
CmdWorkerStart ==
    /\ cmd.pc = "awaiting"
    /\ cmd.worker = "queued"
    /\ ctx_holder = "free"
    /\ ctx_holder' = "cmd"
    /\ abort_flag' = FALSE
    /\ cmd' = [cmd EXCEPT !.worker = "running"]
    /\ last' = Ev("inference_start", "none")
    /\ UNCHANGED <<ctrlVars, setVars, audioVars, loaded_model, modelVars, keyVars, sideVars, hk, tasks, orphans>>

\* the worker returns Ok(text) within the timeout
CmdOk ==
    /\ cmd.pc = "awaiting"
    /\ cmd.worker = "running"
    /\ \E text \in Texts :
          /\ on_transcription_success(text)
          /\ last' = [Ev("on_transcription_success", text) EXCEPT !.cancelled = cmd.cancelled]
    /\ ctx_holder' = "free"
    /\ cmd' = CmdIdle
    /\ UNCHANGED <<setVars, loaded_model, abort_flag, modelVars, keyVars, sideVars, hk, tasks, orphans>>

\* the worker returns Err within the timeout
CmdErr ==
    /\ cmd.pc = "awaiting"
    /\ cmd.worker = "running"
    /\ on_transcription_error(InferenceErr)
    /\ last' = [Ev("on_transcription_error", InferenceErr) EXCEPT !.cancelled = cmd.cancelled]
    /\ ctx_holder' = "free"
    /\ cmd' = CmdIdle
    /\ UNCHANGED <<setVars, loaded_model, abort_flag, modelVars, keyVars, sideVars, hk, tasks, orphans>>

\* tokio::time::timeout elapsed: request_abort and return Err; the worker is left behind
CmdTimeout ==
    /\ cmd.pc = "awaiting"
    /\ cmd.waited >= TRANSCRIPTION_TIMEOUT_SECS
    /\ request_abort
    /\ IF cmd.worker = "running"
       THEN ctx_holder' = "orphan" /\ UNCHANGED orphans
       ELSE orphans' = orphans + 1 /\ UNCHANGED ctx_holder
    /\ cmd' = CmdIdle
    /\ last' = Ev("cmd_return", "timeout")
    /\ UNCHANGED <<ctrlVars, setVars, audioVars, loaded_model, modelVars, keyVars, sideVars, hk, tasks>>

\* a worker left behind takes the context
OrphanStart ==
    /\ orphans > 0
    /\ ctx_holder = "free"
    /\ ctx_holder' = "orphan"
    /\ abort_flag' = FALSE
    /\ orphans' = orphans - 1
    /\ last' = Ev("inference_start", "orphan")
    /\ UNCHANGED <<ctrlVars, setVars, audioVars, loaded_model, modelVars, keyVars, sideVars, hk, tasks, cmd>>

\* a worker left behind returns; nobody awaits it
OrphanDone ==
    /\ ctx_holder = "orphan"
    /\ ctx_holder' = "free"
    /\ last' = Ev("orphan_done", "none")
    /\ UNCHANGED <<ctrlVars, setVars, audioVars, loaded_model, abort_flag, modelVars, keyVars, sideVars, procVars>>

\* stop_and_transcribe of the flowdictate-tauri tree (no timeout), its worker
\* returning Ok(text): on_transcription_success, then ctrl.auto_paste(&text)
\* on the command's own runtime thread, inside the controller's critical section
StopAndTranscribeOk ==
    /\ cmd.pc = "awaiting"
    /\ cmd.worker = "running"
    /\ \E text \in Texts :
          /\ on_transcription_success(text)
          /\ last' = [Ev("on_transcription_success", text) EXCEPT
                          !.paste = auto_paste,
                          !.thread = IF auto_paste THEN "worker" ELSE "none",
                          !.cancelled = cmd.cancelled,
                          !.held = IF auto_paste THEN {"paste"} ELSE {}]
    /\ ctx_holder' = "free"
    /\ cmd' = CmdIdle
    /\ UNCHANGED <<setVars, loaded_model, abort_flag, modelVars, keyVars, sideVars, hk, tasks, orphans>>

---------------------------------------------------------------------------
(* transcribe_file (commands.rs) *)

TfIdle == [pc |-> "idle", worker |-> "none", waited |-> 0]

\* decode_audio_file, audio.is_empty(), ensure_model(..)? and spawn_blocking
TranscribeFileStart ==
    /\ tf.pc = "idle"
    /\ orphans < MaxOrphans
    /\ \E decoded \in {"error", "empty", "audio"}, ctx_ok \in BOOLEAN :
          IF decoded # "audio"
          THEN /\ last' = Ev("transcribe_file", IF decoded = "error" THEN "decode error"
                                                ELSE "No audio decoded from file")
               /\ UNCHANGED <<tf, loaded_model>>
          ELSE /\ ensure_model(ctx_ok)
               /\ IF ensure_model_result(ctx_ok) = "ok"
                  THEN /\ tf' = [pc |-> "awaiting", worker |-> "queued", waited |-> 0]
                       /\ last' = Ev("ensure_model", "ok")
                  ELSE /\ tf' = TfIdle
                       /\ last' = Ev("transcribe_file", ensure_model_result(ctx_ok))
    /\ UNCHANGED <<ctrlVars, setVars, audioVars, abort_flag, ctx_holder, modelVars, keyVars, selVars, storeVars, concVars, procVars>>

\* the blocking worker takes the context and resets the abort flag
TranscribeFileWorkerStart ==
    /\ tf.pc = "awaiting"
    /\ tf.worker = "queued"
    /\ ctx_holder = "free"
    /\ ctx_holder' = "file"
    /\ abort_flag' = FALSE
    /\ tf' = [tf EXCEPT !.worker = "running"]
    /\ last' = Ev("inference_start", "file")
    /\ UNCHANGED <<ctrlVars, setVars, audioVars, loaded_model, modelVars, keyVars, selVars, storeVars, concVars, procVars>>

\* the worker returns Ok(text) within the timeout: the paste is dispatched to
\* the main thread when auto_paste; the controller is not touched
TranscribeFileOk ==
    /\ tf.pc = "awaiting"
    /\ tf.worker = "running"
    /\ \E text \in Texts :
          last' = [Ev("transcribe_file", text) EXCEPT
                      !.paste = auto_paste,
                      !.thread = IF auto_paste THEN "main" ELSE "none"]
    /\ ctx_holder' = "free"
    /\ tf' = TfIdle
    /\ UNCHANGED <<ctrlVars, setVars, audioVars, loaded_model, abort_flag, modelVars, keyVars, selVars, storeVars, concVars, procVars>>

\* the worker returns Err within the timeout
TranscribeFileErr ==
    /\ tf.pc = "awaiting"
    /\ tf.worker = "running"
    /\ last' = Ev("transcribe_file", InferenceErr)
    /\ ctx_holder' = "free"
    /\ tf' = TfIdle
    /\ UNCHANGED <<ctrlVars, setVars, audioVars, loaded_model, abort_flag, modelVars, keyVars, selVars, storeVars, concVars, procVars>>

\* tokio::time::timeout elapsed: request_abort and return Err; the worker is left behind
TranscribeFileTimeout ==
    /\ tf.pc = "awaiting"
    /\ tf.waited >= TRANSCRIPTION_TIMEOUT_SECS
    /\ request_abort
    /\ IF tf.worker = "running"
       THEN ctx_holder' = "orphan" /\ UNCHANGED orphans
       ELSE orphans' = orphans + 1 /\ UNCHANGED ctx_holder
    /\ tf' = TfIdle
    /\ last' = Ev("transcribe_file", "timeout")
    /\ UNCHANGED <<ctrlVars, setVars, audioVars, loaded_model, modelVars, keyVars, selVars, storeVars, concVars,
                   hk, tasks, cmd>>

\* set_hotkey_mode
SetHotkeyMode ==
    /\ \E mode \in HotkeyMode :
          /\ mode # hotkey_mode
          /\ hotkey_mode' = mode
    /\ last' = Ev("set_hotkey_mode", "ok")
    /\ UNCHANGED <<ctrlVars, auto_paste, audioVars, engVars, modelVars, keyVars, sideVars, procVars>>

\* set_auto_paste
SetAutoPaste ==
    /\ \E enabled \in BOOLEAN :
          /\ enabled # auto_paste
          /\ auto_paste' = enabled
    /\ last' = Ev("set_auto_paste", "ok")
    /\ UNCHANGED <<ctrlVars, hotkey_mode, audioVars, engVars, modelVars, keyVars, sideVars, procVars>>

\* set_language: the setting changes, then persist_settings(..)?
SetLanguage ==
    /\ \E lang \in Language, persist_ok \in BOOLEAN :
          /\ language' = lang
          /\ last' = [Ev("set_language", IF persist_ok THEN "ok" ELSE PersistErr) EXCEPT !.arg = lang]
    /\ UNCHANGED <<whisper_model, auto_select_model, tf, storeVars, modelVars, keyVars, concVars, dictVars>>

\* set_whisper_model: the model is set and auto-selection is switched off
SetWhisperModel ==
    /\ \E model \in WhisperModel, persist_ok \in BOOLEAN :
          /\ whisper_model' = model
          /\ auto_select_model' = FALSE
          /\ last' = [Ev("set_whisper_model", IF persist_ok THEN "ok" ELSE PersistErr)
                         EXCEPT !.arg = model]
    /\ UNCHANGED <<language, tf, storeVars, modelVars, keyVars, concVars, dictVars>>

\* set_auto_select_model
SetAutoSelectModel ==
    /\ \E enabled \in BOOLEAN, persist_ok \in BOOLEAN :
          /\ auto_select_model' = enabled
          /\ last' = [Ev("set_auto_select_model", IF persist_ok THEN "ok" ELSE PersistErr)
                         EXCEPT !.arg = IF enabled THEN "true" ELSE "false"]
    /\ UNCHANGED <<language, whisper_model, tf, storeVars, modelVars, keyVars, concVars, dictVars>>

\* download_model, a whole call in which nothing fails: the model file appears
DownloadModel ==
    /\ ~model_on_disk
    /\ dl.pc = "idle"
    /\ final_file' = << ModelBytes >>
    /\ tmp_file' = << >>
    /\ last' = Ev("download_model", "ok")
    /\ UNCHANGED <<ctrlVars, setVars, audioVars, engVars, dl, keyVars, sideVars, procVars>>

---------------------------------------------------------------------------
(* download_model (transcription/model.rs), one step per await *)


\* the call returns Err(ModelDownloadFailed); nothing is cleaned up
DlFailed ==
    /\ dl' = [dl EXCEPT !.pc = "idle"]
    /\ last' = Ev("download_model", ModelDownloadFailed)

\* path.exists() -> Ok(path); else create_dir_all and the GET is sent
DlStart ==
    /\ dl.pc = "idle"
    /\ IF model_on_disk
       THEN /\ last' = Ev("download_model", "ok")
            /\ UNCHANGED dl
       ELSE \E dir_ok \in BOOLEAN :
               IF dir_ok
               THEN /\ dl' = [DlIdle EXCEPT !.pc = "sending"]
                    /\ last' = Ev("download_start", "none")
               ELSE /\ dl' = DlIdle
                    /\ last' = Ev("download_model", ModelDownloadFailed)
    /\ UNCHANGED <<final_file, tmp_file, keyVars, sideVars, dictVars>>

\* the response arrives: send error, HTTP status, File::create(tmp_path)
DlSend ==
    /\ dl.pc = "sending"
    /\ \E send_ok, status_ok, create_ok \in BOOLEAN :
          IF send_ok /\ status_ok /\ create_ok
          THEN /\ tmp_file' = << << >> >>
               /\ dl' = [dl EXCEPT !.pc = "streaming"]
               /\ last' = Ev("download_response", "ok")
          ELSE /\ DlFailed
               /\ UNCHANGED tmp_file
    /\ UNCHANGED <<final_file, keyVars, sideVars, dictVars>>

\* stream.next() yields a chunk: write_all, downloaded += len, progress_callback
DlChunk ==
    /\ dl.pc = "streaming"
    /\ \E n \in 1..MaxChunkLen, write_ok \in BOOLEAN :
          /\ dl.pos + n <= ModelLen
          /\ LET chunk == SubSeq(ModelBytes, dl.pos + 1, dl.pos + n)
             IN IF write_ok
                THEN /\ tmp_file' = << tmp_file[1] \o chunk >>
                     /\ dl' = [dl EXCEPT !.pos = @ + n,
                                         !.chunks = @ + 1,
                                         !.downloaded = @ + Len(chunk),
                                         !.progress = Append(@, dl.downloaded + Len(chunk))]
                     /\ last' = Ev("download_chunk", "ok")
                ELSE \E written \in 0..(n - 1) :
                        /\ tmp_file' = << tmp_file[1] \o SubSeq(chunk, 1, written) >>
                        /\ dl' = [dl EXCEPT !.pc = "idle", !.chunks = @ + 1]
                        /\ last' = Ev("download_model", ModelDownloadFailed)
    /\ UNCHANGED <<final_file, keyVars, sideVars, dictVars>>

DlStreamErr_RemovesTmp ==
    /\ dl.pc = "streaming"
    /\ DlFailed
    /\ tmp_file' = << >>
    /\ UNCHANGED <<final_file, keyVars, sideVars, dictVars>>

\* stream.next() yields an error
DlStreamErr ==
    /\ dl.pc = "streaming"
    /\ DlFailed
    /\ UNCHANGED <<final_file, tmp_file, keyVars, sideVars, dictVars>>

DlFlush_BeforeStreamEnd ==
    /\ dl.pc = "streaming"
    /\ \E flush_ok \in BOOLEAN :
          IF flush_ok
          THEN /\ dl' = [dl EXCEPT !.pc = "renaming"]
               /\ last' = Ev("download_flush", "ok")
          ELSE DlFailed
    /\ UNCHANGED <<final_file, tmp_file, keyVars, sideVars, dictVars>>

\* the stream ends: file.flush()
DlFlush ==
    /\ dl.pc = "streaming"
    /\ dl.pos = ModelLen
    /\ \E flush_ok \in BOOLEAN :
          IF flush_ok
          THEN /\ dl' = [dl EXCEPT !.pc = "renaming"]
               /\ last' = Ev("download_flush", "ok")
          ELSE DlFailed
    /\ UNCHANGED <<final_file, tmp_file, keyVars, sideVars, dictVars>>

DlRename_CopiesTmp ==
    /\ dl.pc = "renaming"
    /\ \E rename_ok \in BOOLEAN :
          IF rename_ok
          THEN /\ final_file' = tmp_file
               /\ UNCHANGED tmp_file
               /\ dl' = [dl EXCEPT !.pc = "idle"]
               /\ last' = Ev("download_model", "ok")
          ELSE /\ DlFailed
               /\ UNCHANGED <<final_file, tmp_file>>
    /\ UNCHANGED <<keyVars, sideVars, dictVars>>

\* fs::rename(tmp_path, path)
DlRename ==
    /\ dl.pc = "renaming"
    /\ \E rename_ok \in BOOLEAN :
          IF rename_ok
          THEN /\ final_file' = tmp_file
               /\ tmp_file' = << >>
               /\ dl' = [dl EXCEPT !.pc = "idle"]
               /\ last' = Ev("download_model", "ok")
          ELSE /\ DlFailed
               /\ UNCHANGED <<final_file, tmp_file>>
    /\ UNCHANGED <<keyVars, sideVars, dictVars>>

\* the is_model_downloaded command
IsModelDownloaded ==
    /\ last' = Ev("is_model_downloaded", is_model_downloaded)
    /\ UNCHANGED <<modelVars, keyVars, sideVars, dictVars>>

---------------------------------------------------------------------------
(* set_hotkey (commands.rs) *)

\* unregister(old) with its error ignored, register(new), on failure
\* register(old) with its error ignored; then the controller and the store
SetHotkey ==
    /\ \E shortcut \in Shortcuts, unreg_ok, reg_ok, rereg_ok, persist_ok \in BOOLEAN :
          LET old_shortcut == hotkey
              unregistered == IF unreg_ok THEN os_registered \ {old_shortcut}
                                          ELSE os_registered
          IN IF ~reg_ok
             THEN /\ os_registered' = IF rereg_ok THEN unregistered \cup {old_shortcut}
                                                  ELSE unregistered
                  /\ UNCHANGED <<hotkey, current_shortcut>>
                  /\ last' = Ev("set_hotkey", HotkeyRegisterErr)
             ELSE /\ os_registered' = unregistered \cup {shortcut}
                  /\ hotkey' = shortcut
                  /\ set_shortcut(shortcut)
                  /\ last' = Ev("set_hotkey", IF persist_ok THEN "ok" ELSE PersistErr)
    /\ UNCHANGED <<suspended, modelVars, sideVars, dictVars>>

---------------------------------------------------------------------------
(* settings/store.rs *)

\* the files somebody else can leave at settings_path(): a text that is not
\* JSON, or an object with or without the UI layer's key and with no field
\* of Settings, one field, or one field whose value does not deserialize
ForeignParts ==
    {EmptyObj} \cup {[k \in ForeignKeys |-> JsonBool(b)] : b \in BOOLEAN}

FieldParts ==
    {EmptyObj,
     [k \in {"language"} |-> JsonString("sv")],
     [k \in {"language"} |-> JsonString("de")],
     [k \in {"auto_paste"} |-> JsonBool(FALSE)],
     [k \in {"hotkey"} |-> JsonNull]}

ForeignFiles ==
    {Garbage} \cup
    {JsonObject([k \in DOMAIN f \cup DOMAIN g |-> IF k \in DOMAIN f THEN f[k] ELSE g[k]]) :
        f \in ForeignParts, g \in FieldParts}

\* the UI layer's store, an older version or the user writes the file
ExternalWrite ==
    /\ sv.pc = "idle"
    /\ \E contents \in ForeignFiles :
          /\ settings_file' = << contents >>
          /\ last' = Ev("external_write", "none")
    /\ sv' = [sv EXCEPT !.saved = << >>]
    /\ UNCHANGED <<settings_tmp, tf, selVars, modelVars, keyVars, concVars, dictVars>>

\* load
load_result(read_ok) ==
    IF settings_file = << >> \/ ~read_ok THEN DefaultSettings
    ELSE IF settings_from_str(settings_file[1]) = << >> THEN DefaultSettings
    ELSE settings_from_str(settings_file[1])[1]

Load ==
    /\ \E read_ok \in BOOLEAN :
          last' = [Ev("load", load_result(read_ok)) EXCEPT
                      !.arg = IF read_ok THEN "read" ELSE "unreadable"]
    /\ UNCHANGED <<storeVars, tf, selVars, modelVars, keyVars, concVars, dictVars>>

\* save up to the write of the .tmp file: create_dir_all, read the existing
\* file, merge, write
Save ==
    /\ sv.pc = "idle"
    /\ \/ \E error \in {"Failed to create settings dir", "Failed to write settings"},
             cut_short \in BOOLEAN :
             /\ settings_tmp' = IF error = "Failed to write settings" /\ cut_short
                                THEN << Garbage >> ELSE settings_tmp
             /\ last' = Ev("save", error)
             /\ UNCHANGED sv
       \/ \E settings \in SettingsValues, read_ok \in BOOLEAN :
             LET map == IF settings_file # << >> /\ read_ok
                        THEN map_from_str(settings_file[1]) ELSE EmptyObj
             IN /\ settings_tmp' = << JsonObject(merged(map, settings)) >>
                /\ sv' = [sv EXCEPT !.pc = "written", !.settings = << settings >>]
                /\ last' = Ev("save", "written")
    /\ UNCHANGED <<settings_file, tf, selVars, modelVars, keyVars, concVars, dictVars>>

\* save: the rename of the .tmp file over the settings file
SaveRename ==
    /\ sv.pc = "written"
    /\ \E rename_ok \in BOOLEAN :
          IF rename_ok
          THEN /\ settings_file' = settings_tmp
               /\ settings_tmp' = << >>
               /\ sv' = [pc |-> "idle", settings |-> << >>, saved |-> sv.settings]
               /\ last' = Ev("save", "ok")
          ELSE /\ sv' = [sv EXCEPT !.pc = "idle", !.settings = << >>]
               /\ last' = Ev("save", "Failed to rename settings file")
               /\ UNCHANGED <<settings_file, settings_tmp>>
    /\ UNCHANGED <<tf, selVars, modelVars, keyVars, concVars, dictVars>>

---------------------------------------------------------------------------
(* cli/config.rs *)

\* `config set hotkey <value>` invoked with a value
InitValidate ==
    /\ InitState
    /\ \E value \in HotkeyInputs : last = [Ev("config set hotkey", "none") EXCEPT !.arg = value]

\* cmd_set: validate_hotkey(value)
ValidateHotkey ==
    /\ last.op = "config set hotkey"
    /\ last' = [Ev("validate_hotkey", validate_hotkey(last.arg)) EXCEPT !.arg = last.arg]
    /\ UNCHANGED <<sideVars, modelVars, keyVars, dictVars>>

---------------------------------------------------------------------------
(* Time *)

Awaited(t) == t.pc \in {"queued", "running"}

\* TickMs milliseconds pass
TickMillis ==
    /\ \/ recording_start # << >> /\ recording_start[1] < MIN_RECORDING_MS
       \/ hk.sleep > 0
    /\ recording_start' = IF recording_start = << >> THEN << >>
                          ELSE << Min(recording_start[1] + TickMs, MIN_RECORDING_MS) >>
    /\ hk' = [hk EXCEPT !.sleep = Max(0, @ - TickMs)]
    /\ last' = Ev("tick", "ms")
    /\ UNCHANGED <<state, last_transcription, last_error, setVars, audioVars, engVars, modelVars, keyVars, sideVars,
                   tasks, cmd, orphans>>

\* TickSecs seconds pass; a pending tokio timeout fires no later than its deadline
TickSeconds ==
    /\ \/ cmd.pc = "awaiting"
       \/ tf.pc = "awaiting"
       \/ \E i \in TaskIds : Awaited(tasks[i]) /\ tasks[i].waited <= TRANSCRIPTION_TIMEOUT_SECS
    /\ ~(cmd.pc = "awaiting" /\ cmd.waited >= TRANSCRIPTION_TIMEOUT_SECS)
    /\ ~(tf.pc = "awaiting" /\ tf.waited >= TRANSCRIPTION_TIMEOUT_SECS)
    /\ cmd' = IF cmd.pc = "awaiting"
              THEN [cmd EXCEPT !.waited = Min(@ + TickSecs, TRANSCRIPTION_TIMEOUT_SECS)]
              ELSE cmd
    /\ tasks' = [i \in TaskIds |->
                    IF Awaited(tasks[i])
                    THEN [tasks[i] EXCEPT !.waited = Min(@ + TickSecs, TRANSCRIPTION_TIMEOUT_SECS + 1)]
                    ELSE tasks[i]]
    /\ recording_start' = IF recording_start = << >> THEN << >> ELSE << MIN_RECORDING_MS >>
    /\ hk' = [hk EXCEPT !.sleep = 0]
    /\ tf' = IF tf.pc = "awaiting"
             THEN [tf EXCEPT !.waited = Min(@ + TickSecs, TRANSCRIPTION_TIMEOUT_SECS)]
             ELSE tf
    /\ last' = Ev("tick", "s")
    /\ UNCHANGED <<state, last_transcription, last_error, setVars, audioVars, engVars, modelVars, keyVars,
                   selVars, storeVars, concVars, orphans>>

---------------------------------------------------------------------------
(* Specifications *)

\* hotkey events, cancel, inference completion, settings
NextHotkey ==
    \/ HotkeyPressed
    \/ HotkeyReleased
    \/ HotkeyStop
    \/ HotkeyNoAudio
    \/ \E i \in TaskIds : TaskEnsureModel(i)
    \/ \E i \in TaskIds : TaskWorkerStart(i)
    \/ \E i \in TaskIds : TaskOk(i)
    \/ \E i \in TaskIds : TaskErr(i)
    \/ CmdCancel
    \/ SetHotkeyMode
    \/ SetAutoPaste
    \/ DownloadModel
    \/ CaptureCallback
    \/ TickMillis
    \/ TickSeconds

\* the same with the commands start_recording and stop_and_transcribe
Next ==
    \/ NextHotkey
    \/ CmdStartRecording
    \/ CmdStop
    \/ CmdDispatch
    \/ CmdWorkerStart
    \/ CmdOk
    \/ CmdErr
    \/ CmdTimeout
    \/ OrphanStart
    \/ OrphanDone

Spec == Init /\ [][Next]_vars

SpecHotkey == Init /\ [][NextHotkey]_vars

\* one download_model call at a time, and the is_model_downloaded query
NextDownload ==
    \/ DlStart
    \/ DlSend
    \/ DlChunk
    \/ DlStreamErr
    \/ DlFlush
    \/ DlRename
    \/ IsModelDownloaded

SpecDownload == Init /\ [][NextDownload]_vars

\* set_hotkey calls, one after the other
NextSetHotkey == SetHotkey

SpecSetHotkey == Init /\ [][NextSetHotkey]_vars

\* the hotkey path while the recorder of the settings window suspends and
\* resumes the HotkeyService
NextSuspend ==
    \/ NextHotkey
    \/ Suspend
    \/ Resume

SpecSuspend == Init /\ [][NextSuspend]_vars

\* the commands that choose the language and the model
NextSettings ==
    \/ SetLanguage
    \/ SetWhisperModel
    \/ SetAutoSelectModel

SpecSettings == Init /\ [][NextSettings]_vars

\* the settings store, with the other writers of its file
NextStore ==
    \/ Load
    \/ Save
    \/ SaveRename
    \/ ExternalWrite

SpecStore == Init /\ [][NextStore]_vars

\* validate_hotkey applied to every hotkey string of the bounded set
\* the inferences: stop_and_transcribe and transcribe_file with their timeouts
\* and the workers they leave behind
NextEngine ==
    \/ CmdStartRecording
    \/ CaptureCallback
    \/ CmdStop
    \/ CmdDispatch
    \/ CmdWorkerStart
    \/ CmdOk
    \/ CmdErr
    \/ CmdTimeout
    \/ TranscribeFileStart
    \/ TranscribeFileWorkerStart
    \/ TranscribeFileOk
    \/ TranscribeFileErr
    \/ TranscribeFileTimeout
    \/ OrphanStart
    \/ OrphanDone
    \/ DownloadModel
    \/ TickSeconds

SpecEngine == Init /\ [][NextEngine]_vars

NextClipboard ==
    \/ Paste
    \/ RestoreClipboard

SpecClipboard == Init /\ [][NextClipboard]_vars

NextHotkeySetters ==
    \/ \E c \in HotkeySetterIds : HsRead(c)
    \/ \E c \in HotkeySetterIds : HsUnregister(c)
    \/ \E c \in HotkeySetterIds : HsRegister(c)
    \/ \E c \in HotkeySetterIds : HsUpdate(c)

SpecHotkeySetters == Init /\ [][NextHotkeySetters]_vars

NextPersist ==
    \/ \E c \in SetterIds : SetterMutate(c)
    \/ \E c \in SetterIds : PersistClone(c)
    \/ \E c \in SetterIds : PersistWrite(c)
    \/ \E c \in SetterIds : PersistRename(c)

SpecPersist == Init /\ [][NextPersist]_vars

NextDownloads ==
    \/ \E w \in DlWorkers : DwStart(w)
    \/ \E w \in DlWorkers : DwCreate(w)
    \/ \E w \in DlWorkers : DwChunk(w)
    \/ \E w \in DlWorkers : DwStreamErr(w)
    \/ \E w \in DlWorkers : DwFlush(w)
    \/ \E w \in DlWorkers : DwRename(w)

SpecDownloads == Init /\ [][NextDownloads]_vars

NextBackend ==
    \/ ModelFileAppears
    \/ \E i \in LoaderIds : EnsureModel(i)
    \/ \E i \in LoaderIds : LoadModelStoreContext(i)
    \/ \E i \in LoaderIds : LoadModelStoreTag(i)
    \/ TranscribeLock
    \/ TranscribeReadModel
    \/ TranscribeReturn

SpecBackend == Init /\ [][NextBackend]_vars

\* validate_hotkey on its inputs
NextValidate == ValidateHotkey

SpecValidate == InitValidate /\ [][NextValidate]_vars

\* the hotkey path with a microphone that delivers long blocks
NextCapture ==
    \/ HotkeyPressed
    \/ HotkeyReleased
    \/ HotkeyStop
    \/ HotkeyNoAudio
    \/ \E i \in TaskIds : TaskEnsureModel(i)
    \/ \E i \in TaskIds : TaskWorkerStart(i)
    \/ \E i \in TaskIds : TaskOk(i)
    \/ \E i \in TaskIds : TaskErr(i)
    \/ CmdCancel
    \/ CaptureCallback
    \/ CaptureBlock
    \/ TickMillis

SpecCapture == Init /\ [][NextCapture]_vars

\* the three paths that paste a transcription: hotkey release,
\* stop_and_transcribe (flowdictate-tauri tree) and transcribe_file
NextPaste ==
    \/ HotkeyPressed
    \/ HotkeyReleased
    \/ HotkeyStop
    \/ HotkeyNoAudio
    \/ \E i \in TaskIds : TaskEnsureModel(i)
    \/ \E i \in TaskIds : TaskWorkerStart(i)
    \/ \E i \in TaskIds : TaskOk(i)
    \/ \E i \in TaskIds : TaskErr(i)
    \/ CmdStartRecording
    \/ CmdStop
    \/ CmdDispatch
    \/ CmdWorkerStart
    \/ StopAndTranscribeOk
    \/ CmdErr
    \/ TranscribeFileStart
    \/ TranscribeFileWorkerStart
    \/ TranscribeFileOk
    \/ TranscribeFileErr
    \/ TranscribeFileTimeout
    \/ OrphanStart
    \/ OrphanDone
    \/ SetAutoPaste
    \/ CaptureCallback
    \/ TickMillis
    \/ TickSeconds

SpecPaste == Init /\ [][NextPaste]_vars

---------------------------------------------------------------------------
(* Claims *)

\* C1: under hotkey_down / hotkey_up / cancel / inference-complete events the
\* state stays in {Idle, Recording, Transcribing, Error} and every change of
\* state is an arrow of the state machine: Idle -> Recording by hotkey_down,
\* Recording -> Transcribing by the release path once MIN_RECORDING_MS have
\* elapsed, Recording -> Idle by cancel, Transcribing -> Idle by
\* on_transcription_success or on_transcription_error.
C1_StateMachine ==
    [][ /\ state \in AppState
        /\ state' \in AppState
        /\ state' # state =>
              \/ state = "Idle" /\ state' = "Recording" /\ last'.op = "hotkey_down"
              \/ /\ state = "Recording" /\ state' = "Transcribing"
                 /\ last'.op = "hotkey_stop"
                 /\ recording_elapsed >= MIN_RECORDING_MS
              \/ state = "Recording" /\ state' = "Idle" /\ last'.op = "cancel"
              \/ /\ state = "Transcribing" /\ state' = "Idle"
                 /\ last'.op \in {"on_transcription_success", "on_transcription_error"}
      ]_vars

\* a dictation went round the whole cycle and its text was stored
C1_Witness ==
    /\ last.op = "on_transcription_success"
    /\ state = "Idle"
    /\ last_transcription # << >>

\* C2: once cancel() was invoked in Transcribing, the outcome of the inference
\* in flight is discarded when its worker returns (a text or an error): no
\* paste, last_transcription and last_error keep their values, and the state
\* ends Idle.
C2_CancelDiscardsOutcome ==
    [][ last'.cancelled =>
           /\ last_transcription' = last_transcription
           /\ last_error' = last_error
           /\ ~last'.paste
           /\ state' = "Idle"
      ]_vars

\* C3: when stop_and_transcribe returns because the model file is absent, the
\* state is Idle and last_error is set.
C3_ModelMissingReturnsToIdle ==
    (last.op = "cmd_return" /\ last.ret = ModelMissing)
        => (state = "Idle" /\ last_error # << >>)

\* C4: when stop_and_transcribe returns its timeout error, the abort flag is
\* set and the state is Idle.
C4_TimeoutReturnsToIdle ==
    (last.op = "cmd_return" /\ last.ret = "timeout")
        => (abort_flag /\ state = "Idle")

\* C5: no inference dispatched by a hotkey release is awaited for longer than
\* TRANSCRIPTION_TIMEOUT_SECS.
C5_HotkeyInferenceTimesOut ==
    \A i \in TaskIds : Awaited(tasks[i]) => tasks[i].waited <= TRANSCRIPTION_TIMEOUT_SECS

\* C6: hotkey_down starts a recording exactly from Idle (state Recording, a
\* capture thread spawned); in Recording or Transcribing it returns Ok and
\* leaves state, last_transcription, last_error and the capture service alone.
C6_HotkeyDownOnlyFromIdle ==
    [][ last'.op = "hotkey_down" =>
           /\ last'.ret = "ok"
           /\ state = "Idle" => (state' = "Recording" /\ capture_thread' # << >> /\ buffer' = 0)
           /\ state \in {"Recording", "Transcribing"} =>
                 UNCHANGED <<state, last_transcription, last_error, audioVars>>
           /\ state' = "Recording" /\ state # "Recording" => state = "Idle"
      ]_vars

\* hotkey_down arrived while a recording held samples, and nothing changed
C6_Witness ==
    /\ last.op = "hotkey_down"
    /\ state = "Recording"
    /\ buffer > 0

\* C7: in Toggle mode a hotkey release in Recording goes on to stop the
\* recording, as in PushToTalk.
C7_ToggleKeyUpStops ==
    [][ (last'.op = "hotkey_up" /\ hotkey_mode = "Toggle" /\ state = "Recording")
           => hk'.pc = "waiting"
      ]_vars

\* C8: a hotkey release goes on to stop the recording exactly when the mode is
\* PushToTalk and the state Recording; any other release changes nothing.
C8_KeyUpStopsOnlyPushToTalkRecording ==
    [][ last'.op = "hotkey_up" =>
           IF hotkey_mode = "PushToTalk" /\ state = "Recording"
           THEN hk'.pc = "waiting" /\ last'.ret = "stop"
           ELSE /\ last'.ret = "none"
                /\ UNCHANGED <<ctrlVars, setVars, audioVars, engVars, procVars>>
      ]_vars

\* a release in Toggle mode during a recording: nothing stops
C8_Witness ==
    /\ last.op = "hotkey_up"
    /\ last.ret = "none"
    /\ hotkey_mode = "Toggle"
    /\ state = "Recording"

\* C9: when the capture thread could not open its stream, hotkey_down /
\* start_recording returned an error and the state is Idle.
C9_CaptureFailureKeepsIdle ==
    (last.op \in {"hotkey_down", "start_recording"} /\ capture_thread = << "failed" >>)
        => (last.ret # "ok" /\ state = "Idle")

\* C10: a recording is stopped for transcription no earlier than
\* MIN_RECORDING_MS after it entered Recording.
C10_MinimumRecordingDuration ==
    [][ (state = "Recording" /\ state' = "Transcribing")
           => recording_elapsed >= MIN_RECORDING_MS
      ]_vars

\* C11: cancel() invoked while the state is Transcribing, an inference in
\* flight, sets the engine's abort flag.
C11_CancelSetsAbortFlag ==
    [][ (last'.op = "cancel" /\ state = "Transcribing" /\ \E i \in TaskIds : Awaited(tasks[i]))
           => abort_flag'
      ]_vars

\* C12: cancel() in Recording sets the stop signal, joins the capture thread
\* and returns the state to Idle, spawns no inference, dispatches no paste and
\* leaves last_transcription alone; cancel() in Idle changes nothing.
C12_CancelFrame ==
    [][ last'.op = "cancel" =>
           /\ state = "Recording" =>
                 /\ last'.ret = "cancelled"
                 /\ stop_signal'
                 /\ capture_thread' = << >>
                 /\ state' = "Idle"
                 /\ ~last'.paste
                 /\ UNCHANGED <<last_transcription, last_error, tasks, cmd, orphans,
                                loaded_model, ctx_holder, abort_flag>>
           /\ state = "Idle" =>
                 /\ last'.ret = "none"
                 /\ UNCHANGED <<ctrlVars, setVars, audioVars, engVars, procVars>>
      ]_vars

\* a recording with samples was cancelled: capture stopped, state Idle
C12_Witness ==
    /\ last.op = "cancel"
    /\ last.ret = "cancelled"
    /\ state = "Idle"
    /\ stop_signal
    /\ capture_thread = << >>
    /\ last_captured = << MaxSamples >>

\* C13: when an inference worker returns, the state goes from Transcribing to
\* Idle and the outcome is recorded in exactly one field: a text in
\* last_transcription with last_error unchanged, or an error in last_error
\* with last_transcription unchanged.
C13_CompletionRecordsOutcome ==
    [][ (ctx_holder # "free" /\ ctx_holder' = "free") =>
           /\ state = "Transcribing"
           /\ state' = "Idle"
           /\ \/ /\ last'.op = "on_transcription_success"
                 /\ last_transcription' = << last'.ret >>
                 /\ last_error' = last_error
              \/ /\ last'.op = "on_transcription_error"
                 /\ last_error' = << last'.ret >>
                 /\ last_transcription' = last_transcription
      ]_vars

\* C14: no recording is in progress while the inference of another dictation
\* is in flight.
C14_OneDictationAtATime ==
    state = "Recording" =>
        /\ \A i \in TaskIds : tasks[i].pc = "free"
        /\ cmd.pc # "awaiting"

\* C15: a dictation whose inference succeeds dispatches one paste when
\* auto_paste is true and none when it is false; last_transcription takes the
\* text and no error is recorded.
C15_PasteCountMatchesAutoPaste ==
    [][ last'.op = "on_transcription_success" =>
           /\ last'.paste <=> auto_paste
           /\ last_transcription' = << last'.ret >>
           /\ last_error' = last_error
      ]_vars

\* C16: when stopping the capture returns an empty buffer, no task is spawned,
\* no model is loaded and no inference starts; the next step of the handler
\* records the no-audio error and returns the state to Idle.
C16_EmptyBufferNoInference ==
    [][ /\ (last'.op \in {"hotkey_stop", "stop_and_transcribe"} /\ last'.ret = "stopped"
              /\ buffer = 0) =>
              /\ hk'.pc = "noaudio" \/ (cmd'.pc = "stopped" /\ cmd'.audio = 0)
              /\ UNCHANGED <<tasks, orphans, loaded_model, ctx_holder>>
        /\ (hk.pc = "noaudio" /\ hk'.pc # "noaudio") =>
              (last'.op = "on_transcription_error" /\ last'.ret = NoAudioMsg)
        /\ (cmd.pc = "stopped" /\ cmd.audio = 0 /\ cmd'.pc # "stopped") =>
              (last'.op = "on_transcription_error" /\ last'.ret = NoAudioMsg)
        /\ (last'.op = "on_transcription_error" /\ last'.ret = NoAudioMsg) =>
              /\ last_error' = << NoAudioMsg >>
              /\ state' = "Idle"
              /\ UNCHANGED <<tasks, orphans, loaded_model, ctx_holder, abort_flag>>
      ]_vars

\* a recording without samples was stopped: the error is recorded, no model loaded
C16_Witness ==
    /\ last.op = "on_transcription_error"
    /\ last.ret = NoAudioMsg
    /\ last_error = << NoAudioMsg >>
    /\ state = "Idle"
    /\ last_captured = << 0 >>
    /\ loaded_model = << >>

IsPrefix(a, b) == Len(a) <= Len(b) /\ SubSeq(b, 1, Len(a)) = a

\* C17: during a download the final file either does not exist or holds the
\* complete bytes; it appears only by the rename of the complete .tmp file,
\* and is_model_downloaded answers true only for a complete file.
C17_FinalFileNeverPartial ==
    [][ /\ final_file' \in {<< >>, << ModelBytes >>}
        /\ (last'.op = "is_model_downloaded" /\ last'.ret) => final_file' = << ModelBytes >>
        /\ final_file' # final_file =>
              /\ final_file = << >>
              /\ dl.pc = "renaming"
              /\ tmp_file = << ModelBytes >>
              /\ final_file' = tmp_file
              /\ last'.op = "download_model" /\ last'.ret = "ok"
      ]_vars

\* is_model_downloaded answered false while the .tmp file held a part of the bytes
C17_Witness ==
    /\ last.op = "is_model_downloaded"
    /\ last.ret = FALSE
    /\ dl.pc = "streaming"
    /\ tmp_file # << >>
    /\ Len(tmp_file[1]) > 0
    /\ Len(tmp_file[1]) < ModelLen
    /\ final_file = << >>

\* C18: a download of a model not on disk that returns Ok invoked the progress
\* callback once per chunk with non-decreasing `downloaded` (ending at the
\* number of bytes served); the final file holds the served bytes in order
\* and no .tmp file remains.
C18_SuccessfulDownload ==
    [][ (last'.op = "download_model" /\ last'.ret = "ok" /\ ~model_on_disk) =>
           /\ final_file' = << ModelBytes >>
           /\ tmp_file' = << >>
           /\ Len(dl'.progress) = dl'.chunks
           /\ \A i \in 1..(Len(dl'.progress) - 1) : dl'.progress[i] <= dl'.progress[i + 1]
           /\ dl'.progress # << >> /\ dl'.progress[Len(dl'.progress)] = ModelLen
      ]_vars

\* a download served in several chunks has completed
C18_Witness ==
    /\ last.op = "download_model"
    /\ last.ret = "ok"
    /\ dl.chunks >= 2
    /\ Len(dl.progress) = dl.chunks
    /\ final_file = << ModelBytes >>
    /\ tmp_file = << >>

\* C19: a download that fails returns ModelDownloadFailed without creating
\* the final file and without deleting the .tmp file: the bytes written so
\* far stay in it.
C19_FailureLeavesTmp ==
    [][ /\ (last'.op = "download_model" /\ last'.ret # "ok") =>
              /\ last'.ret = ModelDownloadFailed
              /\ final_file = << >> /\ final_file' = << >>
              /\ tmp_file # << >> =>
                    (tmp_file' # << >> /\ IsPrefix(tmp_file[1], tmp_file'[1]))
        /\ (dl.pc # "idle" /\ dl'.pc = "idle") => last'.op = "download_model"
      ]_vars

\* a download failed after part of the bytes were written
C19_Witness ==
    /\ last.op = "download_model"
    /\ last.ret = ModelDownloadFailed
    /\ dl.downloaded > 0
    /\ tmp_file # << >>
    /\ Len(tmp_file[1]) >= dl.downloaded
    /\ final_file = << >>

\* C20: when set_hotkey fails to register the new shortcut, the shortcut
\* that was registered before the call is still registered when it returns,
\* and settings.hotkey and the tracked binding are unchanged.
C20_RegisterFailureKeepsBinding ==
    [][ (last'.op = "set_hotkey" /\ last'.ret = HotkeyRegisterErr /\ hotkey \in os_registered) =>
           /\ hotkey \in os_registered'
           /\ UNCHANGED <<hotkey, current_shortcut>>
      ]_vars

---------------------------------------------------------------------------
\* C21: while the suspended flag of the HotkeyService is set, a press or a
\* release of the hotkey is dropped: the step of the shortcut handler leaves
\* the controller, the capture service and the handler itself as they were
\* (no recording starts, none is stopped, the state does not change).
C21_SuspendedDropsEvents ==
    [][(suspended /\ last'.op \in {"hotkey_down", "hotkey_up"})
          => UNCHANGED <<ctrlVars, audioVars, hk>>]_vars

---------------------------------------------------------------------------
\* C22: PasteService.paste runs on the main thread only: whenever a step
\* pastes a transcription (after a hotkey release, in stop_and_transcribe or
\* in transcribe_file), the paste ran inside a run-on-main-thread dispatch.
C22_PasteOnMainThread == last.paste => last.thread = "main"

---------------------------------------------------------------------------
\* C23: save is read-merge-write.  When save returns Ok, every key that the
\* settings file held before the call and that is not a field of Settings is
\* still there with the same value, and every field of Settings holds the
\* saved value; and a step of save changes the file only by renaming a fully
\* written .tmp file over it.
C23_SaveMergesAndRenames ==
    [][ /\ (last'.op = "save" /\ last'.ret = "ok") =>
             LET before == IF settings_file = << >> THEN EmptyObj ELSE settings_file[1].obj
                 after  == settings_file'[1].obj
             IN /\ \A k \in DOMAIN before \ SettingsKeys :
                      k \in DOMAIN after /\ after[k] = before[k]
                /\ \A k \in SettingsKeys :
                      k \in DOMAIN after /\ after[k] = field_to_value(k, sv.settings[1][k])
        /\ (last'.op = "save" /\ settings_file' # settings_file) =>
             /\ settings_tmp # << >>
             /\ settings_tmp[1].ok
             /\ settings_file' = settings_tmp
      ]_vars

---------------------------------------------------------------------------
\* C24: settings round trip.  A load that reads the file left by a
\* successful save(s) returns s in every field; a load of a missing file, of
\* a file that cannot be read or of a text that is not JSON returns
\* Settings::default(); a load of a JSON object whose Settings fields all
\* deserialize returns the default in every field the object lacks.
C24_RoundTrip ==
    last.op = "load" =>
       /\ (last.arg = "read" /\ sv.saved # << >>) =>
             \A k \in SettingsKeys : last.ret[k] = sv.saved[1][k]
       /\ (settings_file = << >> \/ last.arg = "unreadable") => last.ret = DefaultSettings
       /\ (settings_file # << >> /\ ~settings_file[1].ok) => last.ret = DefaultSettings
       /\ ( /\ last.arg = "read"
            /\ settings_file # << >>
            /\ settings_file[1].ok
            /\ \A k \in DOMAIN settings_file[1].obj \cap SettingsKeys :
                  field_accepts(k, settings_file[1].obj[k]) ) =>
             \A k \in SettingsKeys \ DOMAIN settings_file[1].obj :
                 last.ret[k] = DefaultSettings[k]

\* a load after save(s) with s.language = Norwegian, the file holding the
\* UI layer's key as well
C24_Witness ==
    /\ last.op = "load"
    /\ last.arg = "read"
    /\ sv.saved # << >>
    /\ sv.saved[1].language = "Norwegian"
    /\ last.ret.language = "Norwegian"
    /\ "hasCompletedOnboarding" \in DOMAIN settings_file[1].obj

---------------------------------------------------------------------------
\* C25: the effective model is one of the models of the language or the
\* explicit model: with auto_select_model it is recommended(language), which
\* models_for_language(language) contains; without it, it is the explicit
\* model whatever the language; and set_whisper_model(m) leaves the effective
\* model at m.
C25_EffectiveModel ==
    /\ \/ contains(models_for_language(language), effective_model)
       \/ effective_model = whisper_model
    /\ auto_select_model =>
          /\ effective_model = recommended(language)
          /\ contains(models_for_language(language), recommended(language))
    /\ ~auto_select_model => effective_model = whisper_model
    /\ last.op = "set_whisper_model" => effective_model = last.arg

\* set_whisper_model has chosen a model that is not one of the language's
C25_Witness ==
    /\ last.op = "set_whisper_model"
    /\ language = "Swedish"
    /\ effective_model = "TinyEn"
    /\ ~contains(models_for_language(language), effective_model)

---------------------------------------------------------------------------
---------------------------------------------------------------------------
\* C27: the capture buffer never holds more than MAX_BUFFER_SAMPLES =
\* 14,400,000 samples; a block is appended whole when it fits and is dropped
\* whole, the buffer staying as it was, when appending it would exceed the cap.
C27_BufferCap ==
    [][ /\ buffer' <= 14400000
        /\ last'.op = "samples" =>
              IF buffer + last'.arg <= 14400000
              THEN buffer' = buffer + last'.arg
              ELSE buffer' = buffer
      ]_vars

\* a block has been dropped at a buffer that is neither empty nor full
C27_Witness ==
    /\ last.op = "samples"
    /\ buffer = 7200000
    /\ last.arg = 14400000

---------------------------------------------------------------------------
\* C28: no operation holds the controller's mutex across a blocking call: the
\* capture start (thread spawn and warm-up sleep), the capture stop (thread
\* join), the inference and the paste are all made with the mutex released, so
\* no step makes a blocking call inside its critical section.
C28_NoBlockingUnderLock == last.held = {}

---------------------------------------------------------------------------
\* C29: within one dictation the events are ordered.  A sample is appended
\* only by a capture thread that has been started and not yet joined; the
\* step that joins the capture thread has requested the stop; when the
\* inference begins the thread has been joined and the buffer taken (it is
\* empty and the audio is retained), so no sample follows the take; and a
\* paste is dispatched only by the step in which the inference returned.
C29_DictationOrder ==
    [][ /\ last'.op = "samples" =>
              capture_thread = << "running" >> /\ capture_thread' = << "running" >>
        /\ (capture_thread # << >> /\ capture_thread' = << >>) => stop_signal'
        /\ last'.op = "inference_start" =>
              capture_thread = << >> /\ buffer = 0 /\ last_captured # << >>
        /\ last'.paste =>
              /\ last'.op = "on_transcription_success"
              /\ \E i \in TaskIds : tasks[i].pc = "running" /\ tasks'[i].pc = "free"
      ]_vars

\* a dictation has run from the press to the paste of its text
C29_Witness ==
    /\ last.op = "on_transcription_success"
    /\ last.paste
    /\ stop_signal
    /\ capture_thread = << >>
    /\ last_transcription # << >>

---------------------------------------------------------------------------
\* C30: after any sequence of start_recording, stop_and_transcribe, cancel,
\* hotkey and inference-completion events at most one capture thread is alive:
\* a step that spawns a capture thread finds none alive (the one before it has
\* been joined by a stop), and a capture thread is alive only while the state
\* is Recording.
C30_OneCaptureThread ==
    [][ /\ "capture_start" \in last'.held => capture_thread # << "running" >>
        /\ capture_thread' = << "running" >> => state' = "Recording"
      ]_vars

---------------------------------------------------------------------------
\* C31: at most one model context exists at any time: when the backend
\* switches models, the old context is dropped before the new one is loaded.
C31_OneContext == contexts_alive <= 1

---------------------------------------------------------------------------
\* C32: ensure_model(model) loads only when the loaded model differs from
\* model (a call that finds it loaded changes nothing, and a context is built
\* only for a model that is not the loaded one and whose file is on disk);
\* when it succeeds loaded_model = model; when the file is missing or the load
\* fails it returns the error and leaves loaded_model and the context alone.
C32_EnsureModel ==
    [][ /\ (last'.op = "ensure_model" /\ last'.ret = "ok") =>
              backend.loaded_model = << last'.arg >> /\ UNCHANGED <<backend, loaders>>
        /\ (last'.op = "load_model" /\ last'.ret = "context_created") =>
              backend.loaded_model # << last'.arg >> /\ last'.arg \in backend.disk
        /\ (last'.op = "load_model" /\ last'.ret = "ok") =>
              backend'.loaded_model = << last'.arg >>
        /\ (last'.op = "ensure_model" /\ last'.ret \in {ModelMissing, ModelLoadErr}) =>
              /\ UNCHANGED <<backend, loaders>>
              /\ backend.loaded_model # << last'.arg >>
              /\ last'.ret = ModelMissing <=> last'.arg \notin backend.disk
      ]_vars

\* a load has failed while another model was loaded
C32_Witness ==
    /\ last.op = "ensure_model"
    /\ last.ret = ModelLoadErr
    /\ backend.loaded_model # << >>
    /\ backend.context = backend.loaded_model

---------------------------------------------------------------------------
\* C36: under any interleaving of ensure_model / load_model with transcribe,
\* the model from which transcribe takes its no_speech_threshold is the model
\* of the context it runs the inference on.
C36_TagMatchesContext == infer.pc = "running" => infer.model = infer.ctx

---------------------------------------------------------------------------
\* the transcribe_sync calls that are past self.context.lock()
workers_running ==
    Cardinality({i \in TaskIds : tasks[i].pc = "running"})
      + (IF cmd.worker = "running" THEN 1 ELSE 0)
      + (IF tf.worker = "running" THEN 1 ELSE 0)
      + (IF ctx_holder = "orphan" THEN 1 ELSE 0)

\* C33: at most one inference runs on the engine at a time: a transcription
\* started while another one, a timed-out one still running in the background
\* included, holds the context mutex begins its inference only after that one
\* has released it.
C33_OneInference ==
    [][ /\ workers_running' <= 1
        /\ last'.op = "inference_start" => ctx_holder = "free" /\ workers_running = 0
      ]_vars

\* a timed-out inference still holds the context while the worker of a new
\* transcription waits for it
C33_Witness ==
    /\ ctx_holder = "orphan"
    /\ cmd.worker = "queued" \/ tf.worker = "queued"

---------------------------------------------------------------------------
\* C34: stop_and_transcribe invoked while the state is not Recording is a
\* no-op: it leaves the state, last_error and the retained audio as they were
\* and dispatches no inference (the command does not go on); and the state
\* never becomes Idle while the inference of a dictation is still in flight.
C34_StopOutsideRecordingIsNoOp ==
    [][ /\ (last'.op = "stop_and_transcribe" /\ ~is_recording(state)) =>
              UNCHANGED <<state, last_error, last_captured, cmd>>
        /\ (state = "Transcribing" /\ state' = "Idle") =>
              \A i \in TaskIds : tasks'[i].pc = "free"
      ]_vars

---------------------------------------------------------------------------
\* C35: the stop a hotkey-release handler performs after its minimum-duration
\* wait stops only the recording whose release triggered it, not one started
\* during the wait.  A recording is identified by the instant it started at:
\* the one whose release triggered the wait started at least MIN_RECORDING_MS
\* before the wait ended, one started during the wait started later.
C35_HandlerStopsItsOwnRecording ==
    [][ (last'.op = "hotkey_stop" /\ last'.ret = "stopped") =>
            recording_elapsed >= MIN_RECORDING_MS
      ]_vars

---------------------------------------------------------------------------
\* C37: when two download_model calls for the same model run concurrently,
\* the final filename still never exists partially: once present, its bytes
\* are the served bytes.
C37_ConcurrentDownloads == paths.final # 0 => inodes[paths.final] = ModelBytes

---------------------------------------------------------------------------
\* C38: after any interleaving of concurrent settings-mutating commands has
\* completed, every command has returned Ok and the settings persisted on disk
\* equal the controller's in-memory settings.
C38_PersistedEqualsMemory ==
    (/\ \A c \in SetterIds : setters[c].pc = "idle"
     /\ \E c \in SetterIds : setters[c].ret # "none")
      => /\ \A c \in SetterIds : setters[c].ret \in {"none", "ok"}
         /\ settings_file # << >>
         /\ settings_from_str(settings_file[1]) = << ctrl_settings >>

---------------------------------------------------------------------------
\* C39: after any sequence or interleaving of set_hotkey calls has completed,
\* exactly one shortcut is registered with the OS, and it is settings.hotkey
\* and the shortcut the HotkeyService tracks.
C39_OneShortcutRegistered ==
    (last.op = "set_hotkey" /\ \A c \in HotkeySetterIds : hs[c].pc = "idle")
      => os_registered = {hotkey} /\ current_shortcut = << hotkey >>

---------------------------------------------------------------------------
\* C40: for any sequence of successful paste calls, pastes less than 100 ms
\* apart included, once every clipboard-restore thread has run the clipboard
\* holds the text it held before the first paste; and paste of an empty
\* string does not touch the clipboard.
C40_ClipboardRestored ==
    [][ /\ (last'.op = "paste" /\ last'.arg = "") => UNCHANGED clipboard
        /\ (pst'.n > 0 /\ ~pst'.failed /\ pst'.pending = << >>) =>
              clipboard' = ClipboardBefore
      ]_vars
=============================================================================
